---------------------------- MODULE Spec2Model ----------------------------
(***************************************************************************)
(* A model of the smart-commit CLI (eL1fe/smart-commit): the commit-message *)
(* linter, the interactive repair loop, the `sc commit` and `sc amend`     *)
(* flows, the branch-name sanitizer and the `sc branch` renderer.          *)
(*                                                                         *)
(* Strings are sequences of one-character strings, so that split, trim,    *)
(* replace and the regular expressions of the source are computed on the   *)
(* characters.                                                             *)
(***************************************************************************)
EXTENDS Integers, Sequences, FiniteSets, TLC

VARIABLES
    \* lintCommitMessage applied to one input (utils.ts:241-255)
    lPc, lMessage, lRules, lErrors,
    \* previewCommitMessage (utils.ts:257-316)
    pPc, currentMessage, pRules, pErrors, pRounds, pLintCount,
    pInitial, pEdited, pConfirmedOK, pAllConfirmed,
    \* the commit-message rendering applied to one input (commit.ts:212-222)
    rPc, rTemplate, rAnswers, rSteps,
    \* sanitizeForBranch applied to one input (stats.ts:84-108)
    sPc, sInput, sOptions, sResult,
    \* `sc branch` (stats.ts:110-317)
    bPc, bConfig, bBase, bPlaceholders, bRaw, bAnswers, bSteps, bCleaned,
    bRandomPart, bFinalName, bCommands, bStay,
    \* `sc commit` (commit.ts:18-275)
    cPc, cConfig, cCmdObj, cIndex, cUnstaged, actuallyStaged, stagedFilesStill,
    cAnswers, cCi, diffPreview, diffConfirm, lintEnabled, finalConfirm,
    commitMsg, cError, cCommands, cTicketAnswer, branchName,
    cSuggestedType,
    \* `sc amend` (amend.ts:7-70)
    aPc, aConfig, currentMsg, amendConfirm, newMessage, aErrors, aRetry,
    aLintCalls, aCommands, aEditorDefault,
    \* suggestCommitType applied to one staged list (utils.ts:165-239)
    gPc, gStaged, gReadable, suggestedType

lintVars == <<lPc, lMessage, lRules, lErrors>>
previewVars ==
    <<pPc, currentMessage, pRules, pErrors, pRounds, pLintCount,
      pInitial, pEdited, pConfirmedOK, pAllConfirmed>>
renderVars == <<rPc, rTemplate, rAnswers, rSteps>>
sanitizeVars == <<sPc, sInput, sOptions, sResult>>
branchVars ==
    <<bPc, bConfig, bBase, bPlaceholders, bRaw, bAnswers, bSteps, bCleaned,
      bRandomPart, bFinalName, bCommands, bStay>>
commitVars ==
    <<cPc, cConfig, cCmdObj, cIndex, cUnstaged, actuallyStaged,
      stagedFilesStill, cAnswers, cCi, diffPreview, diffConfirm, lintEnabled,
      finalConfirm, commitMsg, cError, cCommands, cTicketAnswer, branchName,
      cSuggestedType>>
amendVars ==
    <<aPc, aConfig, currentMsg, amendConfirm, newMessage, aErrors, aRetry,
      aLintCalls, aCommands, aEditorDefault>>
suggestVars == <<gPc, gStaged, gReadable, suggestedType>>
vars ==
    <<lintVars, previewVars, renderVars, sanitizeVars, branchVars,
      commitVars, amendVars, suggestVars>>

----------------------------------------------------------------------------
(* Bounds of the model *)

\* longest message given to the linter on its own
MaxMsgLen == 4
\* rounds of the repair loop that the model follows
MaxRounds == 3
\* most paths staged at once when suggestCommitType is applied on its own
MaxStaged == 3
\* longest input given to sanitizeForBranch on its own
MaxInputLen == 3
\* largest maxLength option
MaxMaxLength == 2

----------------------------------------------------------------------------
(* Characters and strings *)

UpperSeq == <<"A","B","C","D","E","F","G","H","I","J","K","L","M",
              "N","O","P","Q","R","S","T","U","V","W","X","Y","Z">>
LowerSeq == <<"a","b","c","d","e","f","g","h","i","j","k","l","m",
              "n","o","p","q","r","s","t","u","v","w","x","y","z">>
DigitSeq == <<"0","1","2","3","4","5","6","7","8","9">>

Range(s) == {s[i] : i \in DOMAIN s}
UpperLetters == Range(UpperSeq)
LowerLetters == Range(LowerSeq)
Digits == Range(DigitSeq)

\* the characters JavaScript's \s and String.prototype.trim treat as blank
WhiteSpace == {" ", "\t", "\n", "\r", "\f"}

\* String.prototype.toLowerCase on one character
ToLowerChar(c) ==
    IF c \in UpperLetters
        THEN LowerSeq[CHOOSE i \in DOMAIN UpperSeq : UpperSeq[i] = c]
        ELSE c

\* String.prototype.toLowerCase
ToLowerCase(s) == [i \in 1..Len(s) |-> ToLowerChar(s[i])]

\* all strings over alphabet A of length at most n
StrUpTo(A, n) == UNION {[1..k -> A] : k \in 0..n}

\* String.prototype.trim: drop the blank characters at both ends
RECURSIVE TrimStart(_)
TrimStart(s) ==
    IF s = <<>> THEN <<>>
    ELSE IF Head(s) \in WhiteSpace THEN TrimStart(Tail(s))
    ELSE s

RECURSIVE TrimEnd(_)
TrimEnd(s) ==
    IF s = <<>> THEN <<>>
    ELSE IF s[Len(s)] \in WhiteSpace THEN TrimEnd(SubSeq(s, 1, Len(s) - 1))
    ELSE s

Trim(s) == TrimEnd(TrimStart(s))

\* message.split('\n')[0]: the text before the first newline
RECURSIVE FirstLine(_)
FirstLine(s) ==
    IF s = <<>> THEN <<>>
    ELSE IF Head(s) = "\n" THEN <<>>
    ELSE <<Head(s)>> \o FirstLine(Tail(s))

\* String.prototype.includes for one character
Includes(s, c) == \E i \in 1..Len(s) : s[i] = c

----------------------------------------------------------------------------
(* lintCommitMessage (utils.ts:241-255) *)

\* the three messages pushed to errors, by name
ErrTooLong == "Summary is too long"
ErrCase == "Summary should start with a lowercase letter."
ErrTicket == "A ticket ID is required in the commit message"

\* a variant that stops at the first violation
lintFirstOnly(message, rules) ==
    LET summary == Trim(FirstLine(message)) IN
    IF Len(summary) > rules.summaryMaxLength THEN <<ErrTooLong>>
    ELSE IF rules.typeCase = "lowercase" /\ summary # <<>>
            /\ summary[1] # ToLowerChar(summary[1]) THEN <<ErrCase>>
    ELSE IF rules.requiredTicket /\ ~Includes(message, "#") THEN <<ErrTicket>>
    ELSE <<>>

lintCommitMessage(message, rules) ==
    LET summary == Trim(FirstLine(message))
        e1 == IF Len(summary) > rules.summaryMaxLength
                 THEN <<ErrTooLong>> ELSE <<>>
        e2 == IF rules.typeCase = "lowercase" /\ summary # <<>>
                    /\ summary[1] # ToLowerChar(summary[1])
                 THEN <<ErrCase>> ELSE <<>>
        e3 == IF rules.requiredTicket /\ ~Includes(message, "#")
                 THEN <<ErrTicket>> ELSE <<>>
    IN e1 \o e2 \o e3

\* the LintRules values the model draws from (types: LintRules)
SummaryMaxLengths == {1, 2, 72}
TypeCases == {"lowercase", "none"}
LintRuleSets ==
    [summaryMaxLength : SummaryMaxLengths, typeCase : TypeCases,
     requiredTicket : BOOLEAN]

\* the characters of the messages given to the linter on its own
LintAlphabet == {"a", "B", " ", "\n", "#"}

LintIdle ==
    /\ lPc = "idle"
    /\ lMessage = <<>>
    /\ lRules = [summaryMaxLength |-> 72, typeCase |-> "lowercase",
                 requiredTicket |-> FALSE]
    /\ lErrors = <<>>

LintInit ==
    /\ lPc = "call"
    /\ lMessage \in StrUpTo(LintAlphabet, MaxMsgLen)
    /\ lRules \in LintRuleSets
    /\ lErrors = <<>>

\* one call of lintCommitMessage(lMessage, lRules)
ApplyLint ==
    /\ lPc = "call"
    /\ lErrors' = lintCommitMessage(lMessage, lRules)
    /\ lPc' = "done"
    /\ UNCHANGED <<lMessage, lRules>>

----------------------------------------------------------------------------
(* previewCommitMessage (utils.ts:257-316) *)

\* the value of an editor prompt that was not asked
NoText == <<"<none>">>

PreviewIdle ==
    /\ pPc = "idle"
    /\ currentMessage = <<>>
    /\ pRules = [summaryMaxLength |-> 72, typeCase |-> "lowercase",
                 requiredTicket |-> FALSE]
    /\ pErrors = <<>>
    /\ pRounds = 0
    /\ pLintCount = 0
    /\ pInitial = <<>>
    /\ pEdited = NoText
    /\ pConfirmedOK = FALSE
    /\ pAllConfirmed = TRUE

\* texts the user may leave in the editor, the empty text included
EditTexts ==
    { <<>>,
      <<"o","k">>,
      <<"O","k">>,
      <<"o","k"," ","#","1">>,
      <<"o","\n","#">> }

\* messages previewCommitMessage is called with
PreviewMessages ==
    { <<"o">>, <<"O","k">>, <<"o","k","a","y">>, <<"o"," ","#","1">> }

\* a variant of the exit test that lets one violation through
LintPassedUpToOne(errors) == Len(errors) <= 1

\* utils.ts:287: errors.length === 0
LintPassed(errors) == Len(errors) = 0

\* utils.ts:285-292: lint the current draft, return it or go on to the
\* 'continue editing?' prompt
LintAndBranch(msg) ==
    LET errors == lintCommitMessage(msg, pRules) IN
    /\ pErrors' = errors
    /\ pLintCount' = pLintCount + 1
    /\ pPc' = IF LintPassed(errors) THEN "returned" ELSE "retry"

\* utils.ts:257-258: the call, up to the first prompt
PreviewCall(message, rules) ==
    /\ pPc' = "confirm"
    /\ currentMessage' = message
    /\ pInitial' = message
    /\ pRules' = rules
    /\ pErrors' = <<>>
    /\ pRounds' = 0
    /\ pLintCount' = 0
    /\ pEdited' = NoText
    /\ pConfirmedOK' = FALSE
    /\ pAllConfirmed' = TRUE

\* utils.ts:264-273, 285-292: 'Does the commit message look OK?' answered yes
ConfirmPreviewYes ==
    /\ pPc = "confirm"
    /\ LintAndBranch(currentMessage)
    /\ pConfirmedOK' = TRUE
    /\ UNCHANGED pAllConfirmed
    /\ UNCHANGED <<currentMessage, pRules, pRounds, pInitial, pEdited>>

\* utils.ts:264-281: answered no, the editor opens
ConfirmPreviewNo ==
    /\ pPc = "confirm"
    /\ pPc' = "edit"
    /\ UNCHANGED <<currentMessage, pRules, pErrors, pRounds, pLintCount,
                   pInitial, pEdited, pConfirmedOK>>
    /\ pAllConfirmed' = FALSE

\* utils.ts:282-292: the editor closes with text;
\* currentMessage = response.editedMessage || currentMessage, then lint
EditorAnswer(text) ==
    /\ pPc = "edit"
    /\ LET next == IF text # <<>> THEN text ELSE currentMessage IN
        /\ currentMessage' = next
        /\ LintAndBranch(next)
    /\ pEdited' = text
    /\ pConfirmedOK' = FALSE
    /\ UNCHANGED pAllConfirmed
    /\ UNCHANGED <<pRules, pRounds, pInitial>>

\* a variant in which declining returns the draft instead of throwing
RetryDeclineReturns ==
    /\ pPc = "retry"
    /\ pPc' = "returned"
    /\ UNCHANGED <<currentMessage, pRules, pErrors, pRounds, pLintCount,
                   pInitial, pEdited, pConfirmedOK, pAllConfirmed>>

\* utils.ts:294-312: 'Do you want to continue editing?' answered no
RetryDecline ==
    /\ pPc = "retry"
    /\ pPc' = "thrown"
    /\ UNCHANGED <<currentMessage, pRules, pErrors, pRounds, pLintCount,
                   pInitial, pEdited, pConfirmedOK, pAllConfirmed>>

\* a variant of the loop that gives up after the first round of editing
RetryContinueGivesUp(text) ==
    /\ pPc = "retry"
    /\ pRounds < MaxRounds
    /\ currentMessage' = text
    /\ pEdited' = text
    /\ pRounds' = pRounds + 1
    /\ pPc' = IF pRounds >= 1 THEN "thrown" ELSE "confirm"
    /\ UNCHANGED <<pRules, pErrors, pLintCount, pInitial, pConfirmedOK,
                   pAllConfirmed>>

\* a variant that lints the draft when the editor closes
RetryContinueLinting(text) ==
    /\ pPc = "retry"
    /\ pRounds < MaxRounds
    /\ currentMessage' = text
    /\ pEdited' = text
    /\ pRounds' = pRounds + 1
    /\ pPc' = "confirm"
    /\ pLintCount' = pLintCount + 1
    /\ UNCHANGED <<pRules, pErrors, pInitial, pConfirmedOK, pAllConfirmed>>

\* utils.ts:294-315: answered yes, the editor closes with text;
\* currentMessage = response.editedMessage, back to the top of the loop
RetryContinue(text) ==
    /\ pPc = "retry"
    /\ pRounds < MaxRounds
    /\ currentMessage' = text
    /\ pEdited' = text
    /\ pRounds' = pRounds + 1
    /\ pPc' = "confirm"
    /\ UNCHANGED <<pRules, pErrors, pLintCount, pInitial, pConfirmedOK,
                   pAllConfirmed>>

PreviewStep ==
    \/ ConfirmPreviewYes
    \/ ConfirmPreviewNo
    \/ \E text \in EditTexts : EditorAnswer(text)
    \/ RetryDecline
    \/ \E text \in EditTexts : RetryContinue(text)

----------------------------------------------------------------------------
(* String.prototype.replace with a string pattern *)

\* String.prototype.indexOf: the first position of pat in s, 0 when absent
IndexOf(s, pat) ==
    LET hits == {i \in 1..(Len(s) - Len(pat) + 1) :
                    SubSeq(s, i, i + Len(pat) - 1) = pat}
    IN IF hits = {} THEN 0 ELSE CHOOSE i \in hits : \A j \in hits : i <= j

\* GetSubstitution for a string pattern (no capture groups): in the
\* replacement text $$ stands for $, $& for the matched text, $` for the
\* text before the match and $' for the text after it
RECURSIVE GetSubstitution(_, _, _, _)
GetSubstitution(repl, matched, before, after) ==
    IF repl = <<>> THEN <<>>
    ELSE IF Head(repl) = "$" /\ Len(repl) >= 2 /\ repl[2] \in {"$", "&", "`", "'"}
        THEN (CASE repl[2] = "$" -> <<"$">>
                [] repl[2] = "&" -> matched
                [] repl[2] = "`" -> before
                [] repl[2] = "'" -> after)
             \o GetSubstitution(SubSeq(repl, 3, Len(repl)), matched, before, after)
    ELSE <<Head(repl)>> \o GetSubstitution(Tail(repl), matched, before, after)

\* a variant that replaces every occurrence of the pattern
RECURSIVE ReplaceEvery(_, _, _)
ReplaceEvery(s, pat, repl) ==
    LET i == IndexOf(s, pat) IN
    IF i = 0 THEN s
    ELSE SubSeq(s, 1, i - 1) \o repl
         \o ReplaceEvery(SubSeq(s, i + Len(pat), Len(s)), pat, repl)

\* a variant that appends the replacement when the pattern is absent
ReplaceFirstOrAppend(s, pat, repl) ==
    LET i == IndexOf(s, pat) IN
    IF i = 0 THEN s \o repl
    ELSE SubSeq(s, 1, i - 1) \o repl \o SubSeq(s, i + Len(pat), Len(s))

\* s.replace(pat, repl), pat a string: only the first occurrence is replaced
ReplaceFirst(s, pat, repl) ==
    LET i == IndexOf(s, pat) IN
    IF i = 0 THEN s
    ELSE LET before == SubSeq(s, 1, i - 1)
             after == SubSeq(s, i + Len(pat), Len(s))
         IN before \o GetSubstitution(repl, pat, before, after) \o after

----------------------------------------------------------------------------
(* Commit-message rendering (commit.ts:212-222) *)

TokTicket == <<"{","t","i","c","k","e","t","}">>
TokTicketSeparator == <<"{","t","i","c","k","e","t","S","e","p","a","r","a","t","o","r","}">>
TokType == <<"{","t","y","p","e","}">>
TokScope == <<"{","s","c","o","p","e","}">>
TokSummary == <<"{","s","u","m","m","a","r","y","}">>
TokBody == <<"{","b","o","d","y","}">>
TokFooter == <<"{","f","o","o","t","e","r","}">>

\* commit.ts:212
scopeFormatted(scope) ==
    IF Trim(scope) # <<>> THEN <<"(">> \o Trim(scope) \o <<")">> ELSE <<>>

\* commit.ts:213
ticketSeparator(ticket) ==
    IF Trim(ticket) # <<>> THEN <<":", " ">> ELSE <<>>

\* commit.ts:215-222: the replace calls in their order, as (token, text)
RenderPairs(answers) ==
    << <<TokTicket, Trim(answers.ticket)>>,
       <<TokTicketSeparator, ticketSeparator(answers.ticket)>>,
       <<TokType, answers.type>>,
       <<TokScope, scopeFormatted(answers.scope)>>,
       <<TokSummary, Trim(answers.summary)>>,
       <<TokBody, Trim(answers.body)>>,
       <<TokFooter, Trim(answers.footer)>> >>

\* commit.ts:215-222: the template and the value of each replace call in turn
RECURSIVE RenderChain(_, _, _)
RenderChain(template, pairs, k) ==
    IF k = 0 THEN <<template>>
    ELSE LET prev == RenderChain(template, pairs, k - 1) IN
         Append(prev, ReplaceFirst(prev[k], pairs[k][1], pairs[k][2]))

\* commit.ts:215-222: commitMsg
RenderCommitMsg(template, answers) ==
    RenderChain(template, RenderPairs(answers), 7)[8]

\* config.templates.defaultTemplate: the default (utils.ts:30), the templates
\* of the tests and the README, one with repeated and unknown tokens, one
\* without tokens
TemplateDefault == <<"[","{","t","y","p","e","}","]","{","t","i","c","k","e","t","S","e","p","a","r","a","t","o","r","}","{","t","i","c","k","e","t","}",":"," ","{","s","u","m","m","a","r","y","}">>
TemplateScope == <<"[","{","t","y","p","e","}","]","{","s","c","o","p","e","}",":"," ","{","s","u","m","m","a","r","y","}">>
TemplateTicketFirst == <<"[","{","t","i","c","k","e","t","}","]","{","t","i","c","k","e","t","S","e","p","a","r","a","t","o","r","}","[","{","t","y","p","e","}","]",":"," ","{","s","u","m","m","a","r","y","}">>
TemplateBody == <<"{","s","u","m","m","a","r","y","}","\n","{","b","o","d","y","}","\n","{","f","o","o","t","e","r","}">>
TemplateRepeat == <<"{","t","y","p","e","}"," ","{","s","u","m","m","a","r","y","}"," ","{","s","u","m","m","a","r","y","}"," ","{","f","o","o","}">>
TemplatePlain == <<"w","i","p">>
CommitTemplates ==
    {TemplateDefault, TemplateScope, TemplateTicketFirst, TemplateBody,
     TemplateRepeat, TemplatePlain}

\* answers of the prompts (commit.ts:145-154), absent ones already ""
TypeFeat == <<"f","e","a","t">>
RenderAnswers ==
    [type : {TypeFeat},
     scope : {<<>>, <<" ">>, <<"u","i">>, <<" ","u","i"," ">>, <<"$","$">>},
     summary : {<<"o","k">>, <<"a","$","&">>},
     body : {<<>>, <<"b"," ">>},
     footer : {<<>>, <<"f">>},
     ticket : {<<>>, <<" ">>, <<"#","7">>, <<"{","s","u","m","m","a","r","y","}">>}]

NoAnswers ==
    [type |-> <<>>, scope |-> <<>>, summary |-> <<>>, body |-> <<>>,
     footer |-> <<>>, ticket |-> <<>>]

RenderIdle ==
    /\ rPc = "idle"
    /\ rTemplate = <<>>
    /\ rAnswers = NoAnswers
    /\ rSteps = <<>>

RenderInit ==
    /\ rPc = "call"
    /\ rTemplate \in CommitTemplates
    /\ rAnswers \in RenderAnswers
    /\ rSteps = <<>>

\* one evaluation of commit.ts:212-222
ApplyRender ==
    /\ rPc = "call"
    /\ rSteps' = RenderChain(rTemplate, RenderPairs(rAnswers), 7)
    /\ rPc' = "done"
    /\ UNCHANGED <<rTemplate, rAnswers>>

----------------------------------------------------------------------------
(* sanitizeForBranch (stats.ts:84-108) *)

\* an optional field of PlaceholderConfig that is not set
Absent == "absent"

\* the word characters a-zA-Z0-9_ of the source's character class
WordChars == UpperLetters \cup LowerLetters \cup Digits \cup {"_"}

\* new RegExp(`[^a-zA-Z0-9_${separator}]`, 'g') (stats.ts:91): the separator
\* is pasted into the class unescaped, so a backslash escapes the closing
\* bracket (the pattern does not compile) and a "]" closes the class early
\* (the pattern is then the class [^a-zA-Z0-9_] followed by a literal "]")
InvalidCharsRegExp(separator) ==
    CASE separator = "\\" -> "SyntaxError"
      [] separator = "]" -> "nonWordThenBracket"
      [] OTHER -> "notWordNorSeparator"

\* new RegExp(`${separator}{2,}`, 'g') (stats.ts:99): the separator is pasted
\* unescaped in front of the quantifier, so a syntax character with nothing
\* to repeat does not compile and "." stands for any character (with a
\* backslash stats.ts:91 has thrown before this line)
CollapseRegExp(separator) ==
    CASE separator \in {"*", "+", "?", "(", ")", "[", "|", "^", "$"}
            -> "SyntaxError"
      [] separator = "." -> "anyRun"
      [] OTHER -> "separatorRun"

\* input.replace(/\s/g, separator) (stats.ts:89)
ReplaceWhiteSpace(s, separator) ==
    [i \in 1..Len(s) |-> IF s[i] \in WhiteSpace THEN separator ELSE s[i]]

\* result.replace(/[^a-zA-Z0-9_]]/g, ''): each non-word character that a "]"
\* follows is removed together with that "]"
RECURSIVE RemoveNonWordThenBracket(_)
RemoveNonWordThenBracket(s) ==
    IF s = <<>> THEN <<>>
    ELSE IF Len(s) >= 2 /\ s[1] \notin WordChars /\ s[2] = "]"
        THEN RemoveNonWordThenBracket(SubSeq(s, 3, Len(s)))
    ELSE <<Head(s)>> \o RemoveNonWordThenBracket(Tail(s))

\* result.replace(invalidChars, '') (stats.ts:92)
RemoveInvalid(s, separator) ==
    IF InvalidCharsRegExp(separator) = "nonWordThenBracket"
        THEN RemoveNonWordThenBracket(s)
        ELSE SelectSeq(s, LAMBDA c : c \in WordChars \cup {separator})

\* result.replace(/c{2,}/g, c): every run of two or more c becomes one c
RECURSIVE CollapseRuns(_, _)
CollapseRuns(s, c) ==
    IF s = <<>> THEN <<>>
    ELSE IF Len(s) >= 2 /\ s[1] = c /\ s[2] = c THEN CollapseRuns(Tail(s), c)
    ELSE <<Head(s)>> \o CollapseRuns(Tail(s), c)

\* result.replace(/.{2,}/g, '.'): "." matches every character but a line
\* terminator, so every run of two or more such characters becomes "."
RECURSIVE CollapseAnyRuns(_)
CollapseAnyRuns(s) ==
    LET IsAny(c) == c \notin {"\n", "\r"}
        RECURSIVE RunLen(_)
        RunLen(t) == IF t # <<>> /\ IsAny(Head(t)) THEN 1 + RunLen(Tail(t)) ELSE 0
        n == RunLen(s)
    IN IF s = <<>> THEN <<>>
       ELSE IF n >= 2 THEN <<".">> \o CollapseAnyRuns(SubSeq(s, n + 1, Len(s)))
       ELSE <<Head(s)>> \o CollapseAnyRuns(Tail(s))

\* result.replace(reSep, separator) (stats.ts:100)
Collapse(s, separator) ==
    IF CollapseRegExp(separator) = "anyRun"
        THEN CollapseAnyRuns(s)
        ELSE CollapseRuns(s, separator)

\* what a call gives: the string returned, or the error thrown
Returned(value) == [error |-> "none", value |-> value]
Threw(error) == [error |-> error, value |-> <<>>]

\* stats.ts:84-108: the result, or the error a `new RegExp` throws
sanitizeForBranch(input, options) ==
    LET separator == IF options.separator = Absent THEN "-" ELSE options.separator
        collapseSeparator == options.collapseSeparator # "false"
        maxLength == options.maxLength
        r1 == ReplaceWhiteSpace(input, separator)
        r2 == RemoveInvalid(r1, separator)
        r3 == IF options.lowercase # "false" THEN ToLowerCase(r2) ELSE r2
        r4 == IF collapseSeparator THEN Collapse(r3, separator) ELSE r3
        r5 == IF maxLength # 0 /\ Len(r4) > maxLength
                 THEN SubSeq(r4, 1, maxLength) ELSE r4
    IN IF InvalidCharsRegExp(separator) = "SyntaxError" THEN Threw("SyntaxError")
       ELSE IF collapseSeparator /\ CollapseRegExp(separator) = "SyntaxError"
           THEN Threw("SyntaxError")
       ELSE Returned(r5)

\* PlaceholderConfig (types): every field optional; lowercase and
\* collapseSeparator as "true", "false" or absent, an absent maxLength as 0
\* (both are falsy at stats.ts:103)
DefaultOptions ==
    [lowercase |-> Absent, separator |-> Absent, collapseSeparator |-> Absent,
     maxLength |-> 0]
OptionalBoolean == {Absent, "true", "false"}
SeparatorChars == {"-", "_", ".", "]", "*", "\\"}
PlaceholderConfigs ==
    [lowercase : OptionalBoolean,
     separator : {Absent} \cup SeparatorChars,
     collapseSeparator : OptionalBoolean,
     maxLength : 0..MaxMaxLength]

\* the characters of the inputs given to sanitizeForBranch on its own
SanitizeAlphabet == {"a", "B", " ", "-", "@", "]"}

SanitizeIdle ==
    /\ sPc = "idle"
    /\ sInput = <<>>
    /\ sOptions = DefaultOptions
    /\ sResult = Returned(<<>>)

SanitizeInit ==
    /\ sPc = "call"
    /\ sInput \in StrUpTo(SanitizeAlphabet, MaxInputLen)
    /\ sOptions \in PlaceholderConfigs
    /\ sResult = Returned(<<>>)

\* one call of sanitizeForBranch(sInput, sOptions)
ApplySanitize ==
    /\ sPc = "call"
    /\ sResult' = sanitizeForBranch(sInput, sOptions)
    /\ sPc' = "done"
    /\ UNCHANGED <<sInput, sOptions>>

----------------------------------------------------------------------------
(* `sc branch`: registerBranchCommand (stats.ts:110-317) *)

NameType == <<"t","y","p","e">>
NameTicketId == <<"t","i","c","k","e","t","I","d">>
NameShortDesc == <<"s","h","o","r","t","D","e","s","c">>
CustomInput == <<"C","U","S","T","O","M","_","I","N","P","U","T">>
ManualInput == <<"M","a","n","u","a","l"," ","i","n","p","u","t",".",".",".">>

\* `{${ph}}`
Token(ph) == <<"{">> \o ph \o <<"}">>

\* stats.ts:177-184: the names matched by /{(\w+)}/g in the template, each
\* once, in the order of their first occurrence
RECURSIVE ExtractPlaceholders(_, _)
ExtractPlaceholders(s, acc) ==
    LET RECURSIVE WordRun(_)
        WordRun(t) ==
            IF t # <<>> /\ Head(t) \in WordChars THEN 1 + WordRun(Tail(t)) ELSE 0
        n == WordRun(Tail(s))
        name == SubSeq(s, 2, n + 1)
    IN IF s = <<>> THEN acc
       ELSE IF Head(s) = "{" /\ n >= 1 /\ Len(s) >= n + 2 /\ s[n + 2] = "}"
           THEN ExtractPlaceholders(SubSeq(s, n + 3, Len(s)),
                    IF name \in Range(acc) THEN acc ELSE Append(acc, name))
       ELSE ExtractPlaceholders(Tail(s), acc)

\* a variant that ignores the configured options
PlaceholderOptionsIgnored(placeholders, ph) == DefaultOptions

\* stats.ts:253: config.branch?.placeholders?.[ph] || {}
PlaceholderOptions(placeholders, ph) ==
    IF ph \in DOMAIN placeholders THEN placeholders[ph] ELSE DefaultOptions

\* stats.ts:251-256: every non-empty answer is sanitized; the first error
\* thrown, if any (the loop stops there)
SanitizeAnswers(placeholders, raw, cfg) ==
    [ph \in Range(placeholders) |->
        IF raw[ph] # <<>>
            THEN sanitizeForBranch(raw[ph], PlaceholderOptions(cfg, ph))
            ELSE Returned(<<>>)]

\* stats.ts:261-265: an empty value: three replace calls in a row
RemovePlaceholder(name, ph) ==
    ReplaceFirst(
        ReplaceFirst(
            ReplaceFirst(name, Token(ph) \o <<"/">>, <<>>),
            Token(ph) \o <<"-">>, <<>>),
        Token(ph), <<>>)

\* stats.ts:267: a non-empty value
SubstituteValue(name, ph, val) == ReplaceFirst(name, Token(ph), val)

\* stats.ts:258-269: the template and the name after each placeholder in turn
RECURSIVE BranchRenderChain(_, _, _)
BranchRenderChain(chain, placeholders, answers) ==
    IF Len(chain) > Len(placeholders) THEN chain
    ELSE LET ph == placeholders[Len(chain)]
             val == answers[ph]
             name == chain[Len(chain)]
         IN BranchRenderChain(
                Append(chain, IF val = <<>> THEN RemovePlaceholder(name, ph)
                              ELSE SubstituteValue(name, ph, val)),
                placeholders, answers)

\* .replace(/^-+|-+$/g, '') (stats.ts:274)
RECURSIVE StripLeading(_, _)
StripLeading(s, c) ==
    IF s # <<>> /\ Head(s) = c THEN StripLeading(Tail(s), c) ELSE s

RECURSIVE StripTrailing(_, _)
StripTrailing(s, c) ==
    IF s # <<>> /\ s[Len(s)] = c
        THEN StripTrailing(SubSeq(s, 1, Len(s) - 1), c) ELSE s

\* stats.ts:271-275: the cleanup pass
Cleanup(name) ==
    LET c1 == CollapseRuns(name, "/")
        c2 == CollapseRuns(c1, "-")
        c3 == StripTrailing(StripLeading(c2, "-"), "-")
        c4 == StripTrailing(c3, "/")
    IN c4

\* a variant of the emptiness test that never asks for the fallback
NeedsFallbackNever(name) == FALSE

\* stats.ts:277: !finalBranchName
NeedsFallback(name) == name = <<>>

\* Math.random() * 10000, floored, is one of 0..RandomRange-1 (stats.ts:278)
RandomRange == 10000
\* the outcomes of Math.random() the model follows
RandomParts == {0, 7, 420, RandomRange - 1}

\* the decimal digits of a natural number (template literal, stats.ts:279)
RECURSIVE ToDecimal(_)
ToDecimal(n) ==
    IF n < 10 THEN <<DigitSeq[n + 1]>>
    ELSE ToDecimal(n \div 10) \o <<DigitSeq[(n % 10) + 1]>>

FallbackPrefix == <<"n","e","w","-","b","r","a","n","c","h","-">>

\* config.branch: the template, whether branch types are defined, and the
\* options per placeholder name.  The default (utils.ts:46-59), the
\* configuration of the tests, and variations of the template and options
BranchTemplateDefault == <<"{","t","y","p","e","}","/","{","t","i","c","k","e","t","I","d","}","-","{","s","h","o","r","t","D","e","s","c","}">>
BranchTemplates ==
    { BranchTemplateDefault,
      <<"{","t","i","c","k","e","t","I","d","}">>,
      <<"{","t","y","p","e","}","/","{","t","y","p","e","}","-","{","s","h","o","r","t","D","e","s","c","}">>,
      <<"/","{","s","h","o","r","t","D","e","s","c","}","/">>,
      <<"h","o","t","f","i","x">>,
      <<"f","i","x","-","-","i","t","/">> }
BranchTypeValues == {<<"f","e","a","t">>, <<"f","i","x">>}
NoPlaceholderConfig == [ph \in {} |-> DefaultOptions]
BranchPlaceholderConfigs ==
    { NoPlaceholderConfig,
      (NameTicketId :> [DefaultOptions EXCEPT !.lowercase = "false"]),
      (NameShortDesc :> [DefaultOptions EXCEPT !.separator = "_"]),
      (NameShortDesc :> [DefaultOptions EXCEPT !.separator = "*"]),
      (NameShortDesc :> [DefaultOptions EXCEPT !.separator = "$",
                                               !.collapseSeparator = "false"]) }
BranchConfigs ==
    [template : BranchTemplates, hasTypes : BOOLEAN,
     placeholders : BranchPlaceholderConfigs]

\* texts typed at the input prompts
BranchInputs ==
    {<<>>, <<"1","2","3">>, <<"B","1">>,
     <<"a","d","d"," ","l","o","g","i","n">>, <<"@">>, <<" ","x">>,
     <<"a"," "," ","b">>}
\* base branches: picked from the list, or typed after 'Manual input...'
BaseChoices == {<<"m","a","i","n">>, ManualInput}
ManualBases == {<<>>, <<" ","d","e","v"," ">>}

NoCommand(cmd) == [cmd |-> cmd, name |-> <<>>, base |-> <<>>]

BranchIdle ==
    /\ bPc = "idle"
    /\ bConfig = [template |-> <<>>, hasTypes |-> FALSE,
                  placeholders |-> NoPlaceholderConfig]
    /\ bBase = <<>>
    /\ bPlaceholders = <<>>
    /\ bRaw = [ph \in {} |-> <<>>]
    /\ bAnswers = [ph \in {} |-> <<>>]
    /\ bSteps = <<>>
    /\ bCleaned = <<>>
    /\ bRandomPart = 0
    /\ bFinalName = <<>>
    /\ bCommands = <<>>
    /\ bStay = "unasked"

\* stats.ts:116-164: up to the base-branch prompt
BranchInit ==
    /\ bPc = "base"
    /\ bConfig \in BranchConfigs
    /\ bBase = <<>>
    /\ bPlaceholders = <<>>
    /\ bRaw = [ph \in {} |-> <<>>]
    /\ bAnswers = [ph \in {} |-> <<>>]
    /\ bSteps = <<>>
    /\ bCleaned = <<>>
    /\ bRandomPart = 0
    /\ bFinalName = <<>>
    /\ bCommands = <<>>
    /\ bStay = "unasked"

\* stats.ts:251-296: all placeholders answered: sanitize, render, clean up,
\* fall back, then git fetch and git checkout -b
CreateBranch(base, phs, raw) ==
    LET sanitized == SanitizeAnswers(phs, raw, bConfig.placeholders)
        fetch == NoCommand("git fetch --all")
    IN /\ bRaw' = raw
       /\ IF \E ph \in Range(phs) : sanitized[ph].error # "none"
            THEN /\ bPc' = "error"
                 /\ UNCHANGED <<bAnswers, bSteps, bCleaned, bRandomPart,
                                bFinalName, bCommands>>
            ELSE /\ bAnswers' = [ph \in Range(phs) |-> sanitized[ph].value]
                 /\ bSteps' = BranchRenderChain(<<bConfig.template>>, phs,
                                                bAnswers')
                 /\ bCleaned' = Cleanup(bSteps'[Len(bSteps')])
                 /\ IF NeedsFallback(bCleaned')
                       THEN /\ bRandomPart' \in RandomParts
                            /\ bFinalName' =
                                 FallbackPrefix \o ToDecimal(bRandomPart')
                       ELSE /\ bRandomPart' = 0
                            /\ bFinalName' = bCleaned'
                 /\ \E fetchOk \in BOOLEAN, checkoutOk \in BOOLEAN :
                      /\ bCommands' =
                           IF ~fetchOk THEN Append(bCommands, fetch)
                           ELSE bCommands \o
                                << fetch,
                                   [cmd |-> "git checkout -b",
                                    name |-> bFinalName', base |-> base] >>
                      /\ bPc' = IF fetchOk /\ checkoutOk THEN "stay"
                                ELSE "exit1"

\* stats.ts:186-256: after an answer, the prompt of the next placeholder, or
\* the creation of the branch when none is left
NextPromptOrCreate(base, phs, raw) ==
    IF Cardinality(DOMAIN raw) < Len(phs)
        THEN /\ bPc' = "ask"
             /\ bRaw' = raw
             /\ UNCHANGED <<bAnswers, bSteps, bCleaned, bRandomPart,
                            bFinalName, bCommands>>
        ELSE CreateBranch(base, phs, raw)

\* stats.ts:164-165, 177-186: a base branch picked from the list
AnswerBaseBranch(choice) ==
    /\ bPc = "base"
    /\ UNCHANGED bStay
    /\ choice # ManualInput
    /\ bBase' = choice
    /\ bPlaceholders' = ExtractPlaceholders(bConfig.template, <<>>)
    /\ NextPromptOrCreate(choice, bPlaceholders', bRaw)
    /\ UNCHANGED bConfig

\* stats.ts:164-173: 'Manual input...' picked
AnswerBaseManual ==
    /\ bPc = "base"
    /\ UNCHANGED bStay
    /\ bPc' = "manual"
    /\ UNCHANGED <<bConfig, bBase, bPlaceholders, bRaw, bAnswers, bSteps,
                   bCleaned, bRandomPart, bFinalName, bCommands>>

\* stats.ts:167-186: the base branch typed in
AnswerManualBranch(text) ==
    /\ bPc = "manual"
    /\ UNCHANGED bStay
    /\ bBase' = Trim(text)
    /\ bPlaceholders' = ExtractPlaceholders(bConfig.template, <<>>)
    /\ NextPromptOrCreate(Trim(text), bPlaceholders', bRaw)
    /\ UNCHANGED bConfig

\* the answers the prompt of placeholder ph accepts (stats.ts:188-234): a
\* choice of the list for type, a non-empty text for shortDesc (validate)
PromptAnswers(ph) ==
    IF ph = NameType /\ bConfig.hasTypes
        THEN BranchTypeValues \cup {CustomInput}
    ELSE IF ph = NameShortDesc THEN BranchInputs \ {<<>>}
    ELSE BranchInputs

\* stats.ts:236-249: the prompt of the next placeholder answered
AnswerPlaceholder(answer) ==
    /\ bPc = "ask"
    /\ UNCHANGED bStay
    /\ LET ph == bPlaceholders[Cardinality(DOMAIN bRaw) + 1]
           raw == [p \in DOMAIN bRaw \cup {ph} |->
                      IF p = ph THEN answer ELSE bRaw[p]]
       IN /\ answer \in PromptAnswers(ph)
          /\ IF ph = NameType /\ answer = CustomInput
                THEN /\ bPc' = "custom"
                     /\ bRaw' = raw
                     /\ UNCHANGED <<bAnswers, bSteps, bCleaned, bRandomPart,
                                    bFinalName, bCommands>>
                ELSE NextPromptOrCreate(bBase, bPlaceholders, raw)
    /\ UNCHANGED <<bConfig, bBase, bPlaceholders>>

\* stats.ts:239-256: the custom branch type typed in
AnswerCustomType(text) ==
    /\ bPc = "custom"
    /\ UNCHANGED bStay
    /\ NextPromptOrCreate(bBase, bPlaceholders,
                          [bRaw EXCEPT ![NameType] = Trim(text)])
    /\ UNCHANGED <<bConfig, bBase, bPlaceholders>>

\* a variant of the switch-back test that does not look at the base branch
SwitchBackWhenDeclined(stayOnBranch, base) == ~stayOnBranch

\* stats.ts:306: !stayOnBranch && finalBaseBranch
SwitchBack(stayOnBranch, base) == ~stayOnBranch /\ base # <<>>

\* stats.ts:298-316: 'Stay on the new branch?' answered; a switch back that
\* fails is only logged
AnswerStay(stayOnBranch, switchOk) ==
    /\ bPc = "stay"
    /\ bStay' = IF stayOnBranch THEN "yes" ELSE "no"
    /\ bCommands' =
         IF SwitchBack(stayOnBranch, bBase)
            THEN Append(bCommands,
                        [cmd |-> "git checkout", name |-> <<>>, base |-> bBase])
            ELSE bCommands
    /\ bPc' = "done"
    /\ UNCHANGED <<bConfig, bBase, bPlaceholders, bRaw, bAnswers, bSteps,
                   bCleaned, bRandomPart, bFinalName>>

BranchStep ==
    \/ \E choice \in BaseChoices : AnswerBaseBranch(choice)
    \/ AnswerBaseManual
    \/ \E text \in ManualBases : AnswerManualBranch(text)
    \/ \E answer \in BranchInputs \cup BranchTypeValues \cup {CustomInput} :
          AnswerPlaceholder(answer)
    \/ \E text \in BranchInputs : AnswerCustomType(text)
    \/ \E stayOnBranch \in BOOLEAN, switchOk \in BOOLEAN :
          AnswerStay(stayOnBranch, switchOk)

----------------------------------------------------------------------------
(* suggestCommitType (utils.ts:165-239) *)

\* String.prototype.includes, startsWith and endsWith
IncludesText(s, sub) == IndexOf(s, sub) # 0
StartsWith(s, pre) == Len(s) >= Len(pre) /\ SubSeq(s, 1, Len(pre)) = pre
EndsWith(s, suf) ==
    Len(s) >= Len(suf) /\ SubSeq(s, Len(s) - Len(suf) + 1, Len(s)) = suf

\* no suggestion
Null == "null"

\* the paths that may be staged, in the order `git diff --cached --name-only`
\* prints them
AllPaths ==
    << <<"R","E","A","D","M","E",".","m","d">>, <<"c","i","/","a",".","s","h">>, <<"c","o","n","f","/","p","a","c","k","a","g","e",".","j","s","o","n">>, <<"d","o","c","s","/","g","u","i","d","e",".","m","d">>,
       <<"l","i","b","/","a",".","j","s">>, <<"p","a","c","k","a","g","e","-","l","o","c","k",".","j","s","o","n">>, <<"p","a","c","k","a","g","e",".","j","s","o","n">>, <<"p","e","r","f","/","a",".","j","s">>,
       <<"s","r","c","/","h","o","o","k","s","/","a",".","t","s">>, <<"s","r","c","/","i","n","d","e","x",".","t","s">>, <<"s","r","c","/","s","t","y","l","e","s","/","a",".","c","s","s">>,
       <<"s","r","c","/","t","y","p","e","s","/","a",".","t","s">>, <<"s","r","c","/","u","t","i","l","s","/","a",".","t","e","s","t",".","t","s">>, <<"y","a","r","n",".","l","o","c","k">> >>

\* the lines of the output of `git diff --cached --name-only` split at '\n':
\* one line per staged path and the empty text after the last newline
RECURSIVE StagedLines(_, _)
StagedLines(staged, i) ==
    IF i > Len(AllPaths) THEN << <<>> >>
    ELSE (IF i \in staged THEN <<AllPaths[i]>> ELSE <<>>)
         \o StagedLines(staged, i + 1)

\* a variant of the config-file test that knows no config file
IsConfigFileNever(f) == FALSE

\* utils.ts:174-186: configFiles.includes(f)
IsConfigFile(f) ==
    f \in { <<"p","a","c","k","a","g","e",".","j","s","o","n">>, <<"t","s","c","o","n","f","i","g",".","j","s","o","n">>, <<".","e","s","l","i","n","t","r","c">>, <<".","p","r","e","t","t","i","e","r","r","c">>,
            <<"b","a","b","e","l",".","c","o","n","f","i","g",".","j","s">>, <<"w","e","b","p","a","c","k",".","c","o","n","f","i","g",".","j","s">>, <<"v","i","t","e",".","c","o","n","f","i","g",".","t","s">>,
            <<".","e","n","v">>, <<"d","o","c","k","e","r","-","c","o","m","p","o","s","e",".","y","m","l">>, <<"D","o","c","k","e","r","f","i","l","e">> }

\* utils.ts:188-192
IsTestFile(f) ==
    \/ IncludesText(f, <<"_","_","t","e","s","t","s","_","_">>)
    \/ EndsWith(f, <<".","t","e","s","t",".","t","s">>)
    \/ EndsWith(f, <<".","s","p","e","c",".","t","s">>)

\* utils.ts:194-204: sourcePatterns.some(pattern => f.includes(pattern))
IsSourcePattern(f) ==
    \E pattern \in { <<"s","r","c","/","c","o","m","p","o","n","e","n","t","s","/">>, <<"s","r","c","/","h","o","o","k","s","/">>, <<"s","r","c","/","u","t","i","l","s","/">>,
                     <<"s","r","c","/","s","e","r","v","i","c","e","s","/">>, <<"s","r","c","/","c","o","n","t","e","x","t","/">>, <<"s","r","c","/","t","y","p","e","s","/">>,
                     <<"s","r","c","/","s","t","y","l","e","s","/">> } : IncludesText(f, pattern)

\* utils.ts:205
IsStyleFile(f) ==
    IncludesText(f, <<"s","t","y","l","e","s","/">>) \/ EndsWith(f, <<".","c","s","s">>) \/ EndsWith(f, <<".","s","c","s","s">>)

\* utils.ts:206
IsTypesFile(f) == IncludesText(f, <<"t","y","p","e","s","/">>) \/ EndsWith(f, <<".","d",".","t","s">>)

\* utils.ts:210-214
IsPerfFile(f) ==
    \/ IncludesText(f, <<"p","e","r","f","/">>)
    \/ IncludesText(f, <<"p","e","r","f","o","r","m","a","n","c","e","/">>)
    \/ IncludesText(f, <<"o","p","t","i","m","i","z","a","t","i","o","n","/">>)

\* utils.ts:216-220
IsSecurityFile(f) ==
    \/ IncludesText(f, <<"s","e","c","u","r","i","t","y","/">>)
    \/ EndsWith(f, <<".","l","o","c","k">>)
    \/ IncludesText(f, <<"v","u","l","n","e","r","a","b","i","l","i","t","y">>)

\* utils.ts:222-227
IsCiFile(f) ==
    \/ IncludesText(f, <<".","g","i","t","h","u","b","/","w","o","r","k","f","l","o","w","s","/">>)
    \/ IncludesText(f, <<"c","i","/">>)
    \/ IncludesText(f, <<"c","d","/">>)
    \/ f = <<".","g","i","t","l","a","b","-","c","i",".","y","m","l">>

\* utils.ts:229-233
IsBuildFile(f) ==
    f \in { <<"p","a","c","k","a","g","e","-","l","o","c","k",".","j","s","o","n">>, <<"y","a","r","n",".","l","o","c","k">>, <<"p","n","p","m","-","l","o","c","k",".","y","a","m","l">> }

\* utils.ts:165-239: readable is FALSE when `git diff --cached --name-only`
\* throws, lines is its output split at '\n'
suggestCommitType(readable, lines) ==
    IF ~readable THEN Null
    ELSE LET NotBlank(f) == Trim(f) # <<>>
             IsMarkdown(f) == EndsWith(f, <<".","m","d">>)
             IsSrc(f) == StartsWith(f, <<"s","r","c","/">>)
             diffFiles == SelectSeq(lines, NotBlank)
         IN IF Len(diffFiles) = 0 THEN Null
            ELSE IF (\A f \in Range(diffFiles) : IsMarkdown(f)) THEN "docs"
            ELSE IF (\E f \in Range(diffFiles) : IsConfigFile(f)) THEN "chore"
            ELSE IF (\E f \in Range(diffFiles) : IsTestFile(f)) THEN "test"
            ELSE IF (\E f \in Range(diffFiles) : IsSourcePattern(f))
                 THEN (IF (\E f \in Range(diffFiles) : IsStyleFile(f)) THEN "style"
                       ELSE IF (\E f \in Range(diffFiles) : IsTypesFile(f)) THEN "refactor"
                       ELSE "feat")
            ELSE IF (\E f \in Range(diffFiles) : IsPerfFile(f)) THEN "perf"
            ELSE IF (\E f \in Range(diffFiles) : IsSecurityFile(f)) THEN "security"
            ELSE IF (\E f \in Range(diffFiles) : IsCiFile(f)) THEN "ci"
            ELSE IF (\E f \in Range(diffFiles) : IsBuildFile(f)) THEN "build"
            ELSE IF (\E f \in Range(diffFiles) : IsSrc(f)) THEN "feat"
            ELSE Null

SuggestIdle ==
    /\ gPc = "idle"
    /\ gStaged = {}
    /\ gReadable = TRUE
    /\ suggestedType = Null

SuggestInit ==
    /\ gPc = "start"
    /\ gStaged \in {S \in SUBSET (1..Len(AllPaths)) : Cardinality(S) <= MaxStaged}
    /\ gReadable \in BOOLEAN
    /\ suggestedType = Null

\* one call of suggestCommitType
ApplySuggest ==
    /\ gPc = "start"
    /\ suggestedType' = suggestCommitType(gReadable, StagedLines(gStaged, 1))
    /\ gPc' = "done"
    /\ UNCHANGED <<gStaged, gReadable>>

----------------------------------------------------------------------------
(* `sc commit` (commit.ts:18-275) *)

\* the files of the working tree the model follows
Files == {"a.ts", "b.md"}

\* the answer of a confirm prompt that was not asked
Unasked == "unasked"
YesNo(b) == IF b THEN "yes" ELSE "no"

\* commit.ts:257-258, amend.ts:63: message.replace(/"/g, '\\"')
RECURSIVE EscapeQuotes(_)
EscapeQuotes(s) ==
    IF s = <<>> THEN <<>>
    ELSE (IF Head(s) = "\"" THEN <<"\\", "\"">> ELSE <<Head(s)>>)
         \o EscapeQuotes(Tail(s))

\* a command handed to execSync, with its argument and whether it succeeded
Command(cmd, arg, ok) == [cmd |-> cmd, arg |-> arg, ok |-> ok]

\* config.ticketRegex: unset (utils.ts:39), the pattern of the tests, the
\* pattern of the README, and a pattern that does not compile
RegexNone == <<>>
RegexABC == <<"A","B","C","-","\\","d","+">>
RegexDEV == <<"^","(","D","E","V","-","\\","d","+",")">>
RegexInvalid == <<"(">>
TicketRegexes == {RegexNone, RegexABC, RegexDEV, RegexInvalid}

\* the text that `git rev-parse --abbrev-ref HEAD` prints, or its failure;
\* branchName is NoText as long as the command was not run
BranchUnreadable == <<"<error>">>
BranchNames ==
    { <<"m","a","i","n">>, <<"A","B","C","-","1","2","3","-","f","e","a","t","u","r","e","\n">>, <<"f","e","a","t","/","D","E","V","-","7">>, <<"D","E","V","-","4","2","x">>, BranchUnreadable }

\* the greedy run of digits of s from position i on
RECURSIVE DigitRun(_, _)
DigitRun(s, i) ==
    IF i <= Len(s) /\ s[i] \in Digits
    THEN <<s[i]>> \o DigitRun(s, i + 1) ELSE <<>>

\* branchName.match(/PREFIX-\d+/)[0], the pattern anchored at the start of the
\* text or not: the first match from the left, <<>> when there is none
MatchPrefixDigits(prefix, anchored, s) ==
    LET head == prefix \o <<"-">>
        n == Len(head)
        starts == { i \in 1..Len(s) :
                      /\ anchored => i = 1
                      /\ i + n <= Len(s)
                      /\ SubSeq(s, i, i + n - 1) = head
                      /\ s[i + n] \in Digits }
    IN IF starts = {} THEN <<>>
       ELSE LET i == CHOOSE j \in starts : \A k \in starts : j <= k
            IN head \o DigitRun(s, i + n)

\* a variant of the extraction that falls back to the text it was given
ExtractTicketOrBranch(regex, branch) ==
    IF branch = BranchUnreadable \/ regex = RegexInvalid THEN branch
    ELSE IF regex = RegexABC THEN MatchPrefixDigits(<<"A","B","C">>, FALSE, Trim(branch))
    ELSE IF regex = RegexDEV THEN MatchPrefixDigits(<<"D","E","V">>, TRUE, Trim(branch))
    ELSE branch

\* commit.ts:157-165: the ticket taken from the branch name; reading the
\* branch name or compiling the pattern may throw, which the empty catch
\* swallows
ExtractTicket(regex, branch) ==
    IF branch = BranchUnreadable \/ regex = RegexInvalid THEN <<>>
    ELSE IF regex = RegexABC THEN MatchPrefixDigits(<<"A","B","C">>, FALSE, Trim(branch))
    ELSE IF regex = RegexDEV THEN MatchPrefixDigits(<<"D","E","V">>, TRUE, Trim(branch))
    ELSE <<>>

\* config.steps
Steps(scope, ticket, runCI) ==
    [scope |-> scope, body |-> FALSE, footer |-> FALSE, ticket |-> ticket,
     runCI |-> runCI]

\* config.lintRules: the default (utils.ts:41-45) and one that asks for a
\* ticket
LintRulesDefault ==
    [summaryMaxLength |-> 72, typeCase |-> "lowercase",
     requiredTicket |-> FALSE]
LintRulesTicket ==
    [summaryMaxLength |-> 72, typeCase |-> "lowercase",
     requiredTicket |-> TRUE]

CommitConfig(autoAdd, steps, ticketRegex, enableLint, lintRules, template) ==
    [autoAdd |-> autoAdd, steps |-> steps, ticketRegex |-> ticketRegex,
     enableLint |-> enableLint, lintRules |-> lintRules,
     template |-> template]

\* the default configuration (utils.ts:14-60)
CommitConfigDefault ==
    CommitConfig(FALSE, Steps(FALSE, FALSE, FALSE), RegexNone, FALSE,
                 LintRulesDefault, TemplateDefault)

\* the configurations the model runs `sc commit` with: the default, those of
\* the tests, and ones that turn on the ticket step, CI and lint
CommitConfigs ==
    { CommitConfigDefault,
      CommitConfig(FALSE, Steps(TRUE, FALSE, FALSE), RegexNone, FALSE,
                   LintRulesDefault, TemplateScope),
      CommitConfig(FALSE, Steps(FALSE, TRUE, FALSE), RegexABC, FALSE,
                   LintRulesDefault, TemplateTicketFirst),
      CommitConfig(TRUE, Steps(FALSE, FALSE, TRUE), RegexNone, FALSE,
                   LintRulesDefault, TemplateDefault),
      CommitConfig(FALSE, Steps(FALSE, FALSE, FALSE), RegexNone, TRUE,
                   LintRulesDefault, TemplateBody),
      CommitConfig(TRUE, Steps(TRUE, TRUE, TRUE), RegexDEV, TRUE,
                   LintRulesTicket, TemplateDefault),
      CommitConfig(FALSE, Steps(FALSE, TRUE, FALSE), RegexInvalid, FALSE,
                   LintRulesDefault, TemplateDefault),
      CommitConfig(FALSE, Steps(FALSE, FALSE, FALSE), RegexABC, FALSE,
                   LintRulesDefault, TemplateTicketFirst) }

\* the options of the command line (commit.ts:23-26): --lint is absent or true
CmdObjs ==
    { [lint |-> Absent, push |-> FALSE, sign |-> FALSE],
      [lint |-> "true", push |-> TRUE, sign |-> TRUE],
      [lint |-> Absent, push |-> TRUE, sign |-> FALSE] }

\* the answers of the question list (commit.ts:84-148), a question that is
\* not asked leaving its answer out
CommitAnswerSets ==
    [type : {TypeFeat},
     scope : {<<>>, <<"u","i">>},
     summary : {<<"o","k">>, <<"O","k">>},
     body : {<<>>},
     footer : {<<>>},
     ticket : {<<>>, <<"#","7">>},
     runCI : BOOLEAN,
     pushCommit : BOOLEAN]

NoCommitAnswers ==
    [type |-> <<>>, scope |-> <<>>, summary |-> <<>>, body |-> <<>>,
     footer |-> <<>>, ticket |-> <<>>, runCI |-> FALSE, pushCommit |-> FALSE]

\* commit.ts:92-136, 150-154: the answers the prompts can give under the
\* steps of the configuration, the absent ones set to "" and false
PromptedAnswers(config) ==
    { a \in CommitAnswerSets :
        /\ ~config.steps.scope => a.scope = <<>>
        /\ ~config.steps.body => a.body = <<>>
        /\ ~config.steps.footer => a.footer = <<>>
        /\ ~config.steps.ticket => a.ticket = <<>>
        /\ ~config.steps.runCI => ~a.runCI }

\* the error previewCommitMessage throws (utils.ts:311)
CancelError == "Commit message editing cancelled"

CommitIdle ==
    /\ cPc = "idle"
    /\ cConfig = CommitConfigDefault
    /\ cCmdObj = [lint |-> Absent, push |-> FALSE, sign |-> FALSE]
    /\ cIndex = {}
    /\ cUnstaged = {}
    /\ actuallyStaged = {}
    /\ stagedFilesStill = {}
    /\ cAnswers = NoCommitAnswers
    /\ cCi = "notrun"
    /\ diffPreview = Unasked
    /\ diffConfirm = Unasked
    /\ lintEnabled = FALSE
    /\ finalConfirm = Unasked
    /\ commitMsg = <<>>
    /\ cError = "none"
    /\ cCommands = <<>>
    /\ cTicketAnswer = <<>>
    /\ branchName = NoText
    /\ cSuggestedType = Null

\* the command is started: a configuration, the options, and a repository
\* with files in the index or in the working tree
CommitInit ==
    /\ cPc = "start"
    /\ cConfig \in CommitConfigs
    /\ cCmdObj \in CmdObjs
    /\ cIndex \in {{}, {"a.ts"}}
    /\ cUnstaged \in IF cIndex = {} THEN {{}, {"b.md"}} ELSE {{"b.md"}}
    /\ actuallyStaged = {}
    /\ stagedFilesStill = {}
    /\ cAnswers = NoCommitAnswers
    /\ cCi = "notrun"
    /\ diffPreview = Unasked
    /\ diffConfirm = Unasked
    /\ lintEnabled = FALSE
    /\ finalConfirm = Unasked
    /\ commitMsg = <<>>
    /\ cError = "none"
    /\ cCommands = <<>>
    /\ cTicketAnswer = <<>>
    /\ branchName = NoText
    /\ cSuggestedType = Null

\* a variant of the staged-files test that never finds the index empty
NothingStagedNever(files) == FALSE

\* commit.ts:76, 182: the list of staged files has length 0
NothingStaged(files) == files = {}

\* commit.ts:72-79: read the index; return when nothing is staged
CheckStaged(index) ==
    /\ actuallyStaged' = index
    /\ cPc' = IF NothingStaged(index) THEN "done" ELSE "ask"

\* commit.ts:54, 66, 72-79: stageSelectedFiles(files), a `git add` that
\* fails throwing out of the action, then the check of the index
Stage(files, addOk) ==
    IF files # {} /\ ~addOk
    THEN /\ cPc' = "rejected"
         /\ cError' = "git add"
         /\ UNCHANGED <<cIndex, cUnstaged, actuallyStaged>>
    ELSE /\ cIndex' = cIndex \cup files
         /\ cUnstaged' = cUnstaged \ files
         /\ CheckStaged(cIndex')
         /\ UNCHANGED cError

\* the output of `git diff --cached --name-only` for an index, split at
\* '\n': one line per staged file and the empty text after the last newline
StagedOutput(index) ==
    (IF "a.ts" \in index THEN << <<"a",".","t","s">> >> ELSE <<>>)
    \o (IF "b.md" \in index THEN << <<"b",".","m","d">> >> ELSE <<>>)
    \o << <<>> >>

\* commit.ts:27-79: ensureGitRepo, the suggestion computed from the index as
\* it is at the start, then the file prompt (autoAdd off and files to
\* offer), or the automatic staging and the check of the index
CommitStart ==
    /\ cPc = "start"
    /\ \E repoOk \in BOOLEAN, addOk \in BOOLEAN :
        IF ~repoOk
        THEN /\ cPc' = "exit1"
             /\ UNCHANGED <<cIndex, cUnstaged, actuallyStaged, cError,
                            cSuggestedType>>
        ELSE /\ cSuggestedType' = suggestCommitType(TRUE, StagedOutput(cIndex))
             /\ IF ~cConfig.autoAdd /\ cUnstaged # {}
                THEN /\ cPc' = "files"
                     /\ UNCHANGED <<cIndex, cUnstaged, actuallyStaged, cError>>
                ELSE Stage(IF cConfig.autoAdd THEN cUnstaged ELSE {}, addOk)
    /\ UNCHANGED <<cConfig, cCmdObj, cTicketAnswer, branchName, stagedFilesStill, cAnswers, cCi,
                   diffPreview, diffConfirm, lintEnabled, finalConfirm,
                   commitMsg, cCommands>>
    /\ UNCHANGED previewVars

\* commit.ts:52-54, 72-79: the file prompt is answered
SelectFiles ==
    /\ cPc = "files"
    /\ \E files \in SUBSET cUnstaged, addOk \in BOOLEAN : Stage(files, addOk)
    /\ UNCHANGED <<cConfig, cSuggestedType, cCmdObj, cTicketAnswer, branchName, stagedFilesStill, cAnswers, cCi,
                   diffPreview, diffConfirm, lintEnabled, finalConfirm,
                   commitMsg, cCommands>>
    /\ UNCHANGED previewVars

\* a variant of the test that leaves out the emptiness of the answer
ExtractionAppliesToAnyAnswer(config, ticket) ==
    config.steps.ticket /\ config.ticketRegex # <<>>

\* commit.ts:156: config.steps.ticket && !answers.ticket && config.ticketRegex
ExtractionApplies(config, ticket) ==
    config.steps.ticket /\ ticket = <<>> /\ config.ticketRegex # <<>>

\* commit.ts:145-185: the question list is answered; the ticket is taken from
\* the branch name, CI runs, and the index (which CI or the user may have
\* changed meanwhile) is read again
AnswerQuestions ==
    /\ cPc = "ask"
    /\ \E a \in PromptedAnswers(cConfig) :
        /\ cTicketAnswer' = a.ticket
        /\ IF ExtractionApplies(cConfig, a.ticket)
             THEN \E branch \in BranchNames :
                    /\ branchName' = branch
                    /\ LET match == ExtractTicket(cConfig.ticketRegex, branch)
                       IN cAnswers' =
                            IF match # <<>> THEN [a EXCEPT !.ticket = match]
                            ELSE a
             ELSE /\ branchName' = NoText
                  /\ cAnswers' = a
    /\ \E ciOk \in BOOLEAN, index \in {cIndex, {}} :
        IF cAnswers'.runCI /\ ~ciOk
        THEN /\ cCi' = "failed"
             /\ cCommands' = Append(cCommands, Command("ci", <<>>, FALSE))
             /\ cPc' = "exit1"
             /\ UNCHANGED <<cIndex, stagedFilesStill>>
        ELSE /\ cCi' = IF cAnswers'.runCI THEN "passed" ELSE "notrun"
             /\ cCommands' = IF cAnswers'.runCI
                               THEN Append(cCommands, Command("ci", <<>>, TRUE))
                               ELSE cCommands
             /\ cIndex' = index
             /\ stagedFilesStill' = index
             /\ cPc' = IF NothingStaged(index) THEN "done" ELSE "diffPreview"
    /\ UNCHANGED <<cConfig, cSuggestedType, cCmdObj, cUnstaged, actuallyStaged, diffPreview,
                   diffConfirm, lintEnabled, finalConfirm, commitMsg, cError>>
    /\ UNCHANGED previewVars

\* commit.ts:224
LintEnabled(cmdObj, config) ==
    IF cmdObj.lint # Absent THEN cmdObj.lint = "true" ELSE config.enableLint

\* commit.ts:212-236: render the message; with lint on call
\* previewCommitMessage, else ask 'Preview commit message?'
RenderAndDispatch ==
    /\ commitMsg' = RenderCommitMsg(cConfig.template, cAnswers)
    /\ lintEnabled' = LintEnabled(cCmdObj, cConfig)
    /\ IF lintEnabled'
         THEN /\ cPc' = "preview"
              /\ PreviewCall(commitMsg', cConfig.lintRules)
         ELSE /\ cPc' = "previewChoice"
              /\ UNCHANGED previewVars

\* commit.ts:187-197, 212-236: 'view the staged diff preview?' is answered
AnswerDiffPreview ==
    /\ cPc = "diffPreview"
    /\ \E answer \in BOOLEAN :
        /\ diffPreview' = YesNo(answer)
        /\ IF answer
             THEN /\ \E repoOk \in BOOLEAN :
                       cPc' = IF repoOk THEN "diffConfirm" ELSE "exit1"
                  /\ UNCHANGED <<commitMsg, lintEnabled>>
                  /\ UNCHANGED previewVars
             ELSE RenderAndDispatch
    /\ UNCHANGED <<cConfig, cSuggestedType, cCmdObj, cTicketAnswer, branchName, cIndex, cUnstaged, actuallyStaged,
                   stagedFilesStill, cAnswers, cCi, diffConfirm, finalConfirm,
                   cError, cCommands>>

\* commit.ts:198-236: 'Does the staged diff look OK?' is answered
AnswerDiffConfirm ==
    /\ cPc = "diffConfirm"
    /\ \E answer \in BOOLEAN :
        /\ diffConfirm' = YesNo(answer)
        /\ IF answer
             THEN RenderAndDispatch
             ELSE /\ cPc' = "done"
                  /\ UNCHANGED <<commitMsg, lintEnabled>>
                  /\ UNCHANGED previewVars
    /\ UNCHANGED <<cConfig, cSuggestedType, cCmdObj, cTicketAnswer, branchName, cIndex, cUnstaged, actuallyStaged,
                   stagedFilesStill, cAnswers, cCi, diffPreview, finalConfirm,
                   cError, cCommands>>

\* commit.ts:256-258
CommitCommand(cmdObj, msg, ok) ==
    Command(IF cmdObj.sign THEN "git commit -S -m" ELSE "git commit -m",
            EscapeQuotes(msg), ok)

\* a variant of the push test that does not look at the answer
PushWantedAlways(answers) == TRUE

\* commit.ts:266: answers.pushCommit
PushWanted(answers) == answers.pushCommit

\* commit.ts:255-273: `git commit` with the message; exit(1) when it fails,
\* `git push` when the push prompt was answered yes, a failed push only logged
DoCommit(msg) ==
    /\ commitMsg' = msg
    /\ \E commitOk \in BOOLEAN :
        IF commitOk /\ PushWanted(cAnswers)
        THEN \E pushOk \in BOOLEAN :
                /\ cCommands' = cCommands \o
                                   <<CommitCommand(cCmdObj, msg, TRUE),
                                     Command("git push", <<>>, pushOk)>>
                /\ cPc' = "done"
        ELSE /\ cCommands' =
                  Append(cCommands, CommitCommand(cCmdObj, msg, commitOk))
             /\ cPc' = IF commitOk THEN "done" ELSE "exit1"
    /\ UNCHANGED cError

\* commit.ts:227, 255-273: one step of previewCommitMessage inside the
\* command; its return goes on to the commit, its error leaves the action
CommitPreviewStep ==
    /\ cPc = "preview"
    /\ PreviewStep
    /\ IF pPc' = "returned" THEN DoCommit(currentMessage')
       ELSE IF pPc' = "thrown"
       THEN /\ cPc' = "rejected"
            /\ cError' = CancelError
            /\ UNCHANGED <<commitMsg, cCommands>>
       ELSE UNCHANGED <<cPc, cError, commitMsg, cCommands>>
    /\ UNCHANGED <<cConfig, cSuggestedType, cCmdObj, cTicketAnswer, branchName, cIndex, cUnstaged, actuallyStaged,
                   stagedFilesStill, cAnswers, cCi, diffPreview, diffConfirm,
                   lintEnabled, finalConfirm>>

\* commit.ts:229-240: 'Preview commit message?' is answered
AnswerPreviewChoice ==
    /\ cPc = "previewChoice"
    /\ cPc' = "finalConfirm"
    /\ UNCHANGED <<cConfig, cSuggestedType, cCmdObj, cTicketAnswer, branchName, cIndex, cUnstaged, actuallyStaged,
                   stagedFilesStill, cAnswers, cCi, diffPreview, diffConfirm,
                   lintEnabled, finalConfirm, commitMsg, cError, cCommands>>
    /\ UNCHANGED previewVars

\* commit.ts:241-273: 'Proceed with commit?' is answered
AnswerFinalConfirm ==
    /\ cPc = "finalConfirm"
    /\ \E answer \in BOOLEAN :
        /\ finalConfirm' = YesNo(answer)
        /\ IF answer THEN DoCommit(commitMsg)
           ELSE /\ cPc' = "done"
                /\ UNCHANGED <<commitMsg, cError, cCommands>>
    /\ UNCHANGED <<cConfig, cSuggestedType, cCmdObj, cTicketAnswer, branchName, cIndex, cUnstaged, actuallyStaged,
                   stagedFilesStill, cAnswers, cCi, diffPreview, diffConfirm,
                   lintEnabled>>
    /\ UNCHANGED previewVars

CommitStep ==
    \/ CommitStart
    \/ SelectFiles
    \/ AnswerQuestions
    \/ AnswerDiffPreview
    \/ AnswerDiffConfirm
    \/ CommitPreviewStep
    \/ AnswerPreviewChoice
    \/ AnswerFinalConfirm

----------------------------------------------------------------------------
(* `sc amend` (amend.ts:7-70) *)

\* config.enableLint and config.lintRules
AmendConfigs == [enableLint : BOOLEAN, lintRules : LintRuleSets]

\* what `git log -1 --pretty=%B` prints
LastCommitMessages == { <<"o","k","\n">>, <<"O","l","d"," ","m","e","s","s","a","g","e","\n","\n">> }

AmendIdle ==
    /\ aPc = "idle"
    /\ aConfig = [enableLint |-> FALSE, lintRules |-> LintRulesDefault]
    /\ currentMsg = <<>>
    /\ amendConfirm = Unasked
    /\ newMessage = <<>>
    /\ aErrors = <<>>
    /\ aRetry = Unasked
    /\ aLintCalls = 0
    /\ aCommands = <<>>
    /\ aEditorDefault = NoText

AmendInit ==
    /\ aPc = "start"
    /\ aConfig \in AmendConfigs
    /\ currentMsg = <<>>
    /\ amendConfirm = Unasked
    /\ newMessage = <<>>
    /\ aErrors = <<>>
    /\ aRetry = Unasked
    /\ aLintCalls = 0
    /\ aCommands = <<>>
    /\ aEditorDefault = NoText

\* amend.ts:12-24: ensureGitRepo and `git log`, either of which ends the run
\* with exit(1) when it fails, then the confirmation prompt
AmendStart ==
    /\ aPc = "start"
    /\ \E repoOk \in BOOLEAN, logOk \in BOOLEAN, out \in LastCommitMessages :
        IF repoOk /\ logOk
        THEN /\ currentMsg' = Trim(out)
             /\ aPc' = "confirm"
        ELSE /\ aPc' = "exit1"
             /\ UNCHANGED currentMsg
    /\ UNCHANGED <<aConfig, amendConfirm, newMessage, aErrors, aRetry,
                   aLintCalls, aCommands, aEditorDefault>>

\* amend.ts:17-33: 'Do you want to amend the last commit?' is answered
AnswerAmendConfirm ==
    /\ aPc = "confirm"
    /\ \E answer \in BOOLEAN :
        /\ amendConfirm' = YesNo(answer)
        /\ aPc' = IF answer THEN "edit" ELSE "done"
        /\ aEditorDefault' = IF answer THEN currentMsg ELSE aEditorDefault
    /\ UNCHANGED <<aConfig, currentMsg, newMessage, aErrors, aRetry,
                   aLintCalls, aCommands>>

\* a variant of the loop test that never finds a violation
AmendLintFailedNever(errors) == FALSE

\* amend.ts:44, 61: errors.length > 0
AmendLintFailed(errors) == Len(errors) > 0

\* amend.ts:63-68: `git commit --amend`; exit(1) when it fails
AmendExec(msg) ==
    \E ok \in BOOLEAN :
        /\ aCommands' = Append(aCommands,
                               Command("git commit --amend -m",
                                       EscapeQuotes(msg), ok))
        /\ aPc' = IF ok THEN "done" ELSE "exit1"

\* amend.ts:33-63: the editor, opened with its default text, closes with
\* text; with lint on the text is linted, violations lead to the retry
\* prompt, a clean text to the amend
AmendEditorAnswer ==
    /\ aPc = "edit"
    /\ aLintCalls < MaxRounds
    /\ \E text \in EditTexts \cup {aEditorDefault} :
        /\ newMessage' = text
        /\ IF aConfig.enableLint
             THEN /\ aErrors' = lintCommitMessage(text, aConfig.lintRules)
                  /\ aLintCalls' = aLintCalls + 1
                  /\ IF AmendLintFailed(aErrors')
                       THEN /\ aPc' = "retry"
                            /\ UNCHANGED aCommands
                       ELSE AmendExec(text)
             ELSE /\ UNCHANGED <<aErrors, aLintCalls>>
                  /\ AmendExec(text)
    /\ UNCHANGED <<aConfig, currentMsg, amendConfirm, aRetry, aEditorDefault>>

\* amend.ts:33-39, 47-61: 'Would you like to re-edit the commit message?' is
\* answered; no ends the run with exit(1), yes goes round the loop, the
\* editor opening again with default: currentMsg
AnswerRetry ==
    /\ aPc = "retry"
    /\ \E answer \in BOOLEAN :
        /\ aRetry' = YesNo(answer)
        /\ aPc' = IF answer THEN "edit" ELSE "exit1"
        /\ aEditorDefault' = IF answer THEN currentMsg ELSE aEditorDefault
    /\ UNCHANGED <<aConfig, currentMsg, amendConfirm, newMessage, aErrors,
                   aLintCalls, aCommands>>

AmendStep ==
    \/ AmendStart
    \/ AnswerAmendConfirm
    \/ AmendEditorAnswer
    \/ AnswerRetry

----------------------------------------------------------------------------
(* Specifications *)

\* lintCommitMessage on its own
LintSpecInit ==
    LintInit /\ PreviewIdle /\ RenderIdle /\ SanitizeIdle /\ BranchIdle
    /\ CommitIdle /\ AmendIdle
    /\ SuggestIdle
LintNext ==
    ApplyLint /\ UNCHANGED <<previewVars, renderVars, sanitizeVars, branchVars>>
    /\ UNCHANGED <<commitVars, amendVars>>
    /\ UNCHANGED suggestVars
SpecLint == LintSpecInit /\ [][LintNext]_vars

\* previewCommitMessage on its own
PreviewInit ==
    /\ pPc = "confirm"
    /\ currentMessage \in PreviewMessages
    /\ pInitial = currentMessage
    /\ pRules \in LintRuleSets
    /\ pErrors = <<>>
    /\ pRounds = 0
    /\ pLintCount = 0
    /\ pEdited = NoText
    /\ pConfirmedOK = FALSE
    /\ pAllConfirmed = TRUE
PreviewSpecInit ==
    PreviewInit /\ LintIdle /\ RenderIdle /\ SanitizeIdle /\ BranchIdle
    /\ CommitIdle /\ AmendIdle
    /\ SuggestIdle
PreviewNext ==
    PreviewStep /\ UNCHANGED <<lintVars, renderVars, sanitizeVars, branchVars>>
    /\ UNCHANGED <<commitVars, amendVars>>
    /\ UNCHANGED suggestVars
SpecPreview == PreviewSpecInit /\ [][PreviewNext]_vars

\* the commit-message rendering on its own
RenderSpecInit ==
    RenderInit /\ LintIdle /\ PreviewIdle /\ SanitizeIdle /\ BranchIdle
    /\ CommitIdle /\ AmendIdle
    /\ SuggestIdle
RenderNext ==
    ApplyRender /\ UNCHANGED <<lintVars, previewVars, sanitizeVars, branchVars>>
    /\ UNCHANGED <<commitVars, amendVars>>
    /\ UNCHANGED suggestVars
SpecRender == RenderSpecInit /\ [][RenderNext]_vars

\* sanitizeForBranch on its own
SanitizeSpecInit ==
    SanitizeInit /\ LintIdle /\ PreviewIdle /\ RenderIdle /\ BranchIdle
    /\ CommitIdle /\ AmendIdle
    /\ SuggestIdle
SanitizeNext ==
    ApplySanitize /\ UNCHANGED <<lintVars, previewVars, renderVars, branchVars>>
    /\ UNCHANGED <<commitVars, amendVars>>
    /\ UNCHANGED suggestVars
SpecSanitize == SanitizeSpecInit /\ [][SanitizeNext]_vars

\* `sc branch`
BranchSpecInit ==
    BranchInit /\ LintIdle /\ PreviewIdle /\ RenderIdle /\ SanitizeIdle
    /\ CommitIdle /\ AmendIdle
    /\ SuggestIdle
BranchNext ==
    BranchStep /\ UNCHANGED <<lintVars, previewVars, renderVars, sanitizeVars>>
    /\ UNCHANGED <<commitVars, amendVars>>
    /\ UNCHANGED suggestVars
SpecBranch == BranchSpecInit /\ [][BranchNext]_vars

\* `sc commit`, previewCommitMessage running inside it
CommitSpecInit ==
    CommitInit /\ PreviewIdle /\ LintIdle /\ RenderIdle /\ SanitizeIdle
    /\ BranchIdle /\ AmendIdle
    /\ SuggestIdle
CommitNext ==
    CommitStep
    /\ UNCHANGED <<lintVars, renderVars, sanitizeVars, branchVars, amendVars>>
    /\ UNCHANGED suggestVars
SpecCommit == CommitSpecInit /\ [][CommitNext]_vars

\* `sc amend`
AmendSpecInit ==
    AmendInit /\ LintIdle /\ PreviewIdle /\ RenderIdle /\ SanitizeIdle
    /\ BranchIdle /\ CommitIdle
    /\ SuggestIdle
AmendNext ==
    AmendStep
    /\ UNCHANGED <<lintVars, previewVars, renderVars, sanitizeVars,
                   branchVars, commitVars>>
    /\ UNCHANGED suggestVars
SpecAmend == AmendSpecInit /\ [][AmendNext]_vars

\* the two renderers: a run is either one commit-message rendering or one
\* run of `sc branch`
RenderersSpecInit ==
    /\ \/ RenderInit /\ BranchIdle
       \/ RenderIdle /\ BranchInit
    /\ LintIdle /\ PreviewIdle /\ SanitizeIdle /\ CommitIdle /\ AmendIdle
    /\ SuggestIdle
RenderersNext ==
    /\ \/ ApplyRender /\ UNCHANGED branchVars
       \/ BranchStep /\ UNCHANGED renderVars
    /\ UNCHANGED <<lintVars, previewVars, sanitizeVars, commitVars, amendVars>>
    /\ UNCHANGED suggestVars
SpecRenderers == RenderersSpecInit /\ [][RenderersNext]_vars

\* suggestCommitType on its own
SuggestSpecInit ==
    SuggestInit /\ LintIdle /\ PreviewIdle /\ RenderIdle /\ SanitizeIdle
    /\ BranchIdle /\ CommitIdle /\ AmendIdle
SuggestNext ==
    ApplySuggest /\ UNCHANGED <<lintVars, previewVars, renderVars, sanitizeVars>>
    /\ UNCHANGED <<branchVars, commitVars, amendVars>>
SpecSuggest == SuggestSpecInit /\ [][SuggestNext]_vars

----------------------------------------------------------------------------
(* Properties *)

\* C1: previewCommitMessage returns a message only when lintCommitMessage of
\* that message under the rules it was given is the empty list.
C1_ReturnedMessagePassesLint ==
    pPc = "returned" => lintCommitMessage(currentMessage, pRules) = <<>>

\* C1 witness: the loop returned after a failed lint and a further edit
C1_Witness ==
    /\ pPc = "returned"
    /\ pRounds >= 1
    /\ currentMessage # pInitial
    /\ lintCommitMessage(pInitial, pRules) # <<>>

\* the commands of the run hold no `git commit` and no `git push`
C2_NoCommitOrPush ==
    \A i \in 1..Len(cCommands) :
        cCommands[i].cmd \notin {"git commit -m", "git commit -S -m", "git push"}

\* the 'continue editing?' prompt shown after a failed lint is answered no:
\* the loop leaves the prompt without going back to the preview
C2_Declined ==
    /\ pPc = "retry"
    /\ pErrors # <<>>
    /\ pPc' # "confirm"

\* C2: when the user declines to continue editing after a failed lint,
\* previewCommitMessage throws instead of returning, and the `sc commit` run
\* ends with that error, no `git commit` or `git push` having been issued
C2_DeclineRaisesAndCommitAborts ==
    [][C2_Declined =>
         /\ pPc' = "thrown"
         /\ cPc' = "rejected"
         /\ cError' = CancelError
         /\ C2_NoCommitOrPush']_vars

\* C2 witness: a run of `sc commit` that ended with the cancellation error
\* after a lint failure
C2_Witness ==
    /\ cPc = "rejected"
    /\ pPc = "thrown"
    /\ cError = CancelError
    /\ pErrors # <<>>

\* a `git commit` command was issued
C3_CommitIssued ==
    \E i \in 1..Len(cCommands) :
        cCommands[i].cmd \in {"git commit -m", "git commit -S -m"}

\* the gates of `sc commit`
C3_GatesPassed ==
    /\ actuallyStaged # {}
    /\ stagedFilesStill # {}
    /\ cAnswers.runCI => cCi = "passed"
    /\ diffPreview = "yes" => diffConfirm = "yes"
    /\ \/ ~lintEnabled /\ finalConfirm = "yes"
       \/ lintEnabled /\ pPc = "returned"

\* C3: a `git commit` command is issued only if the index was non-empty after
\* staging and again before the diff-preview prompt, CI passed when the user
\* chose to run it, the diff was confirmed when its preview was asked for,
\* and either lint is off and 'Proceed with commit?' was answered yes, or
\* lint is on and the repair loop returned a message
C3_CommitOnlyAfterAllGates == C3_CommitIssued => C3_GatesPassed

\* C3 witness: a commit issued after CI, the diff preview and a repair loop
\* that went round at least once
C3_Witness ==
    /\ C3_CommitIssued
    /\ cAnswers.runCI
    /\ diffPreview = "yes"
    /\ lintEnabled
    /\ pRounds > 0

\* a `git commit --amend` command was issued
C4_AmendIssued == aCommands # <<>>

\* C4: `git commit --amend` is issued only after the amend confirmation was
\* answered yes and, with enableLint on, only with a message that
\* lintCommitMessage found no violation in; declining the confirmation or
\* the re-edit issues no amend; with enableLint off the linter is not called
C4_AmendOnlyConfirmedAndLintClean ==
    /\ C4_AmendIssued =>
         /\ amendConfirm = "yes"
         /\ Len(aCommands) = 1
         /\ aCommands[1].arg = EscapeQuotes(newMessage)
         /\ aConfig.enableLint =>
              /\ aLintCalls > 0
              /\ lintCommitMessage(newMessage, aConfig.lintRules) = <<>>
    /\ amendConfirm = "no" => ~C4_AmendIssued
    /\ aRetry = "no" => ~C4_AmendIssued
    /\ ~aConfig.enableLint => aLintCalls = 0

\* C4 witness: an amend issued with lint on after a failed lint and a re-edit
C4_Witness ==
    /\ C4_AmendIssued
    /\ aConfig.enableLint
    /\ aRetry = "yes"
    /\ aLintCalls > 1

\* the trimmed first line of a message, stated by positions
C9_Summary(m) ==
    LET breaks == {i \in 1..Len(m) : m[i] = "\n"}
        stop == IF breaks = {} THEN Len(m)
                ELSE (CHOOSE i \in breaks : \A j \in breaks : i <= j) - 1
        inked == {i \in 1..stop : m[i] \notin WhiteSpace}
    IN IF inked = {} THEN <<>>
       ELSE SubSeq(m, CHOOSE i \in inked : \A j \in inked : i <= j,
                      CHOOSE i \in inked : \A j \in inked : i >= j)

\* whether violation e applies to message m under rules r
C9_Applies(e, m, r) ==
    LET summary == C9_Summary(m) IN
    CASE e = ErrTooLong -> Len(summary) > r.summaryMaxLength
      [] e = ErrCase -> /\ r.typeCase = "lowercase"
                        /\ summary # <<>>
                        /\ summary[1] \in UpperLetters
      [] e = ErrTicket -> r.requiredTicket /\ "#" \notin Range(m)

\* C9: lintCommitMessage returns exactly the applicable violations, in the
\* order too-long, not-lowercase, ticket-required; all of them, not only the
\* first; the empty list iff none applies; an empty first line never gives
\* the not-lowercase violation.
C9_LintReturnsApplicableViolations ==
    lPc = "done" =>
        /\ lErrors = SelectSeq(<<ErrTooLong, ErrCase, ErrTicket>>,
                               LAMBDA e : C9_Applies(e, lMessage, lRules))
        /\ (lErrors = <<>>) <=>
              (\A e \in {ErrTooLong, ErrCase, ErrTicket} :
                  ~C9_Applies(e, lMessage, lRules))
        /\ C9_Summary(lMessage) = <<>> => ErrCase \notin Range(lErrors)

\* C9 witness: one message for which all three violations are reported
C9_Witness ==
    /\ lPc = "done"
    /\ lErrors = <<ErrTooLong, ErrCase, ErrTicket>>

\* a text put in place of the first occurrence of a token, nothing else
\* changed
Substituted(s, token, text) ==
    LET i == IndexOf(s, token) IN
    IF i = 0 THEN s
    ELSE SubSeq(s, 1, i - 1) \o text \o SubSeq(s, i + Len(token), Len(s))

\* C10: in commit-message rendering {scope} is replaced by the trimmed scope
\* in parentheses when that is non-empty and by nothing otherwise, and
\* {ticketSeparator} by ": " exactly when the trimmed ticket is non-empty and
\* by nothing otherwise.
C10_ScopeAndSeparatorSubstituted ==
    rPc = "done" =>
        /\ rSteps[5] =
             Substituted(rSteps[4], TokScope,
                 IF Trim(rAnswers.scope) # <<>>
                     THEN <<"(">> \o Trim(rAnswers.scope) \o <<")">>
                     ELSE <<>>)
        /\ rSteps[3] =
             Substituted(rSteps[2], TokTicketSeparator,
                 IF Trim(rAnswers.ticket) # <<>> THEN <<":", " ">> ELSE <<>>)

\* the separator in force for a PlaceholderConfig
C5_Separator(options) ==
    IF options.separator = Absent THEN "-" ELSE options.separator

\* C5: for every input and every single-character separator, the string
\* sanitizeForBranch returns holds only ASCII letters, digits, underscore and
\* the separator; with default options only a-z, 0-9, "_" and "-"; and with
\* a separator other than "-" no "-" at all.
C5_SanitizedCharacters ==
    (sPc = "done" /\ sResult.error = "none") =>
        /\ Range(sResult.value) \subseteq WordChars \cup {C5_Separator(sOptions)}
        /\ sOptions = DefaultOptions =>
              Range(sResult.value) \subseteq
                  LowerLetters \cup Digits \cup {"_", "-"}
        /\ C5_Separator(sOptions) # "-" => "-" \notin Range(sResult.value)

\* C6: sanitizeForBranch never raises: for every input and every
\* PlaceholderConfig the call returns a string.
C6_SanitizeNeverThrows ==
    sPc = "done" => sResult.error = "none"

\* `git checkout -b` was issued
BranchCreated ==
    \E i \in 1..Len(bCommands) : bCommands[i].cmd = "git checkout -b"

\* the sanitized answer of placeholder ph, by the options configured for its
\* name or the defaults
C7_Sanitized(ph) ==
    sanitizeForBranch(bRaw[ph],
        IF ph \in DOMAIN bConfig.placeholders
            THEN bConfig.placeholders[ph] ELSE DefaultOptions).value

RECURSIVE C8_DecimalValue(_)
C8_DecimalValue(d) ==
    IF d = <<>> THEN 0
    ELSE 10 * C8_DecimalValue(SubSeq(d, 1, Len(d) - 1))
         + (CHOOSE n \in 0..9 : DigitSeq[n + 1] = d[Len(d)])

\* C8: the name given to git checkout -b is never empty; when the rendered
\* and cleaned-up name is empty (as for the default template with all values
\* empty) it is new-branch-N with N in 0..9999, and otherwise it is the
\* cleaned-up name itself.
C8_FallbackExactlyWhenEmpty ==
    BranchCreated =>
        LET name == bCommands[2].name
            digits == SubSeq(name, Len(FallbackPrefix) + 1, Len(name))
        IN /\ name # <<>>
           /\ bCleaned = <<>> =>
                /\ SubSeq(name, 1, Len(FallbackPrefix)) = FallbackPrefix
                /\ digits # <<>>
                /\ Range(digits) \subseteq Digits
                /\ Len(digits) > 1 => digits[1] # "0"
                /\ C8_DecimalValue(digits) \in 0..9999
                /\ C8_DecimalValue(digits) = bRandomPart
           /\ bCleaned # <<>> => name = bCleaned
           /\ ( /\ bConfig.template = BranchTemplateDefault
                /\ \A ph \in DOMAIN bAnswers : bAnswers[ph] = <<>> )
              => bCleaned = <<>>

\* C8 witness: the default template with all values empty fell back
C8_Witness ==
    /\ BranchCreated
    /\ bConfig.template = BranchTemplateDefault
    /\ bCleaned = <<>>
    /\ bRandomPart = 9999

\* the template holds none of the seven tokens of the commit-message renderer
C11_NoCommitToken(t) ==
    \A tok \in {TokTicket, TokTicketSeparator, TokType, TokScope, TokSummary,
                TokBody, TokFooter} : IndexOf(t, tok) = 0

\* `sc branch` created a branch from a template without placeholders
C11_PlainBranchCreated ==
    /\ BranchCreated
    /\ ExtractPlaceholders(bConfig.template, <<>>) = <<>>

\* the cleanup pass finds nothing to change: no "//", no "--", no "-" at
\* either end, no "/" at the end
C11_NothingToClean(t) ==
    /\ t # <<>>
    /\ t[1] # "-"
    /\ t[Len(t)] \notin {"-", "/"}
    /\ \A i \in 1..(Len(t) - 1) : ~(t[i] = t[i + 1] /\ t[i] \in {"/", "-"})

C12_Answered == cAnswers # NoCommitAnswers

\* the text of s from position i to position j matches the ticket pattern
C12_Matches(regex, s, i, j) ==
    LET prefix == IF regex = RegexABC THEN <<"A","B","C","-">> ELSE <<"D","E","V","-">> IN
    /\ regex \in {RegexABC, RegexDEV}
    /\ regex = RegexDEV => i = 1
    /\ 1 <= i /\ j <= Len(s)
    /\ j >= i + Len(prefix)
    /\ SubSeq(s, i, i + Len(prefix) - 1) = prefix
    /\ \A k \in (i + Len(prefix))..j : s[k] \in Digits

\* t is the first full match of the pattern in s: the leftmost match, taken
\* as long as the digits go
C12_FirstFullMatch(regex, s, t) ==
    \E i \in 1..Len(s), j \in 1..Len(s) :
        /\ C12_Matches(regex, s, i, j)
        /\ t = SubSeq(s, i, j)
        /\ \A i2 \in 1..(i - 1), j2 \in 1..Len(s) : ~C12_Matches(regex, s, i2, j2)
        /\ \A j2 \in (j + 1)..Len(s) : ~C12_Matches(regex, s, i, j2)

\* C12: the ticket is taken from the branch name only when steps.ticket is
\* on, the ticket answer is empty and ticketRegex is non-empty, and it is then
\* the first full match of ticketRegex in the branch name; a non-empty answer
\* is never replaced, and with an empty ticketRegex the branch name is not
\* even read.
C12_TicketExtractedOnlyWhenAsked ==
    C12_Answered =>
        /\ branchName # NoText <=>
              /\ cConfig.steps.ticket
              /\ cTicketAnswer = <<>>
              /\ cConfig.ticketRegex # <<>>
        /\ cAnswers.ticket # cTicketAnswer =>
              /\ branchName \notin {NoText, BranchUnreadable}
              /\ C12_FirstFullMatch(cConfig.ticketRegex, Trim(branchName),
                                    cAnswers.ticket)
        /\ cTicketAnswer # <<>> => cAnswers.ticket = cTicketAnswer
        /\ cConfig.ticketRegex = <<>> => branchName = NoText

\* C12 witness: a commit whose ticket came from the branch name
C12_Witness ==
    /\ C3_CommitIssued
    /\ cTicketAnswer = <<>>
    /\ branchName = <<"A","B","C","-","1","2","3","-","f","e","a","t","u","r","e","\n">>
    /\ cAnswers.ticket = <<"A","B","C","-","1","2","3">>

\* the positions of the command log holding a `git commit`, and a `git push`
C15_Commits ==
    {i \in 1..Len(cCommands) :
        cCommands[i].cmd \in {"git commit -m", "git commit -S -m"}}
C15_Pushes == {i \in 1..Len(cCommands) : cCommands[i].cmd = "git push"}

C16_PushFlagPushes ==
    (cCmdObj.push /\ \E i \in C15_Commits : cCommands[i].ok) =>
        \E i \in C15_Commits : i + 1 \in C15_Pushes

\* extraction was attempted and could not give a ticket: the pattern does not
\* compile, the branch name cannot be read, or nothing in it matches
C13_ExtractionFailed ==
    /\ branchName # NoText
    /\ \/ cConfig.ticketRegex = RegexInvalid
       \/ branchName = BranchUnreadable
       \/ \A i \in 1..Len(Trim(branchName)), j \in 1..Len(Trim(branchName)) :
             ~C12_Matches(cConfig.ticketRegex, Trim(branchName), i, j)

\* C13: when ticketRegex is invalid, does not match the branch name, or the
\* branch name cannot be read, the ticket stays empty and no error is
\* surfaced; the step that attempted the extraction goes on to the CI run and
\* the staged-files check as it does without extraction, the run ending there
\* with exit code 1 only when the CI command failed.
C13_FailedExtractionIsSilent ==
    [][(cPc = "ask" /\ C13_ExtractionFailed') =>
          /\ cAnswers'.ticket = <<>>
          /\ cAnswers' = [cAnswers' EXCEPT !.ticket = cTicketAnswer']
          /\ cError' = "none"
          /\ cPc' \in {"diffPreview", "done", "exit1"}
          /\ cPc' = "exit1" <=> (cAnswers'.runCI /\ cCi' = "failed")
          /\ cPc' = "done" <=> (cCi' # "failed" /\ stagedFilesStill' = {})]_vars

\* C13 witness: a commit created after extraction with a pattern that does
\* not compile
C13_Witness ==
    /\ C3_CommitIssued
    /\ cConfig.ticketRegex = RegexInvalid
    /\ branchName \notin {NoText, BranchUnreadable}
    /\ cAnswers.ticket = <<>>

\* the staged paths
C14_Paths == {AllPaths[i] : i \in gStaged}

\* the config filenames of the second rule
C14_ConfigNames ==
    { <<"p","a","c","k","a","g","e",".","j","s","o","n">>, <<"t","s","c","o","n","f","i","g",".","j","s","o","n">>, <<".","e","s","l","i","n","t","r","c">>, <<".","p","r","e","t","t","i","e","r","r","c">>,
      <<"b","a","b","e","l",".","c","o","n","f","i","g",".","j","s">>, <<"w","e","b","p","a","c","k",".","c","o","n","f","i","g",".","j","s">>, <<"v","i","t","e",".","c","o","n","f","i","g",".","t","s">>, <<".","e","n","v">>,
      <<"d","o","c","k","e","r","-","c","o","m","p","o","s","e",".","y","m","l">>, <<"D","o","c","k","e","r","f","i","l","e">> }

\* the rules in their order, each with whether it matches the staged paths
\* and the type it gives
C14_DecisionList ==
    LET P == C14_Paths
        source == \E f \in P : IsSourcePattern(f)
    IN << <<\A f \in P : EndsWith(f, <<".","m","d">>), "docs">>,
          <<\E f \in P : f \in C14_ConfigNames, "chore">>,
          <<\E f \in P : IsTestFile(f), "test">>,
          <<source /\ \E f \in P : IsStyleFile(f), "style">>,
          <<source /\ \E f \in P : IsTypesFile(f), "refactor">>,
          <<source, "feat">>,
          <<\E f \in P : IsPerfFile(f), "perf">>,
          <<\E f \in P : IsSecurityFile(f), "security">>,
          <<\E f \in P : IsCiFile(f), "ci">>,
          <<\E f \in P : IsBuildFile(f), "build">>,
          <<\E f \in P : StartsWith(f, <<"s","r","c","/">>), "feat">> >>

\* the rules that match
C14_Matching == {i \in 1..Len(C14_DecisionList) : C14_DecisionList[i][1]}

\* C14: suggestCommitType is an ordered decision list, the first matching
\* rule winning: docs when every staged path ends in .md; otherwise chore when
\* a staged path is a listed config filename, whatever later rules match; feat
\* for a path starting with src/ when no earlier rule matches; null with no
\* staged paths, when no rule matches, or when the staged list cannot be read.
C14_OrderedDecisionList ==
    gPc = "done" =>
        LET listed == gReadable /\ C14_Paths # {} IN
        /\ (listed /\ \A f \in C14_Paths : EndsWith(f, <<".","m","d">>)) =>
              suggestedType = "docs"
        /\ (listed /\ (\E f \in C14_Paths : ~EndsWith(f, <<".","m","d">>))
                   /\ (\E f \in C14_Paths : f \in C14_ConfigNames)) =>
              suggestedType = "chore"
        /\ (listed /\ C14_Matching = {11}) => suggestedType = "feat"
        /\ suggestedType = Null <=>
              (~gReadable \/ C14_Paths = {} \/ C14_Matching = {})
        /\ (listed /\ C14_Matching # {}) =>
              \E i \in C14_Matching :
                  /\ \A j \in C14_Matching : i <= j
                  /\ suggestedType = C14_DecisionList[i][2]

\* C14 witness: chore for package.json staged together with a test file,
\* which a later rule matches
C14_Witness ==
    /\ gPc = "done"
    /\ gReadable
    /\ C14_Paths = {<<"p","a","c","k","a","g","e",".","j","s","o","n">>, <<"s","r","c","/","u","t","i","l","s","/","a",".","t","e","s","t",".","t","s">>}
    /\ suggestedType = "chore"

\* C20: in the repair loop a draft is linted, and can be returned, only after
\* 'Does the commit message look OK?' was answered yes for that draft: right
\* after a lint evaluation, whether it returned the draft or found
\* violations, the draft is one the user confirmed.
C20_LintedOnlyAfterConfirm ==
    pPc \in {"returned", "retry"} => pConfirmedOK

\* the step lints a draft
C17_Linted == pLintCount' = pLintCount + 1

\* C17: the repair loop has no retry cap and two ways to end. It ends with a
\* returned message only in a step that linted the message and found no
\* violation, and with the cancellation error only in a step in which the
\* user declined to continue editing; a draft that passes lint ends the loop
\* at once, a draft that fails leads to the 'continue editing?' prompt, where
\* declining ends the loop and continuing leads to the next preview, after
\* any number of rounds the model follows.
C17_TwoWaysToEnd ==
    /\ [](pPc = "retry" =>
            /\ ENABLED RetryDecline
            /\ pRounds < MaxRounds =>
                 \A text \in EditTexts : ENABLED RetryContinue(text))
    /\ [][/\ (pPc' = "returned" /\ pPc # "returned") =>
                /\ pPc \in {"confirm", "edit"}
                /\ C17_Linted
                /\ lintCommitMessage(currentMessage', pRules) = <<>>
          /\ (pPc' = "thrown" /\ pPc # "thrown") =>
                /\ pPc = "retry"
                /\ pErrors # <<>>
                /\ UNCHANGED <<currentMessage, pRounds, pLintCount>>
          /\ C17_Linted =>
                pPc' = IF lintCommitMessage(currentMessage', pRules) = <<>>
                       THEN "returned" ELSE "retry"
          /\ (pPc = "retry" /\ pPc' # "thrown") =>
                /\ pPc' = "confirm"
                /\ pRounds' = pRounds + 1
          /\ pPc \in {"returned", "thrown"} => UNCHANGED previewVars]_vars

\* C17 witness: the loop prompted again after every failed draft of as many
\* rounds as the model follows, and then returned
C17_Witness ==
    /\ pPc = "returned"
    /\ pRounds = MaxRounds
    /\ pLintCount = MaxRounds + 1

\* C18: when the initial message fails lint and the user confirms every
\* preview and keeps editing, and the k-th edit is the first draft to pass
\* lint, previewCommitMessage returns the k-th edited message after exactly
\* k + 1 lint evaluations.
C18_ReturnsKthEditAfterKPlusOneLints ==
    (/\ pPc = "returned"
     /\ pAllConfirmed
     /\ lintCommitMessage(pInitial, pRules) # <<>>) =>
        /\ pRounds >= 1
        /\ currentMessage = pEdited
        /\ pLintCount = pRounds + 1

\* C18 witness: the message failed once and passed after one edit, two lint
\* evaluations in all
C18_Witness ==
    /\ pPc = "returned"
    /\ pAllConfirmed
    /\ lintCommitMessage(pInitial, pRules) # <<>>
    /\ pRounds = 1
    /\ pLintCount = 2
    /\ currentMessage = pEdited

\* the separator of the call, and the text before the collapsing step
C19_Separator ==
    IF sOptions.separator = Absent THEN "-" ELSE sOptions.separator
C19_BeforeCollapse ==
    LET r2 == RemoveInvalid(ReplaceWhiteSpace(sInput, C19_Separator),
                            C19_Separator)
    IN IF sOptions.lowercase # "false" THEN ToLowerCase(r2) ELSE r2

\* C19: with collapseSeparator not explicitly false the result of
\* sanitizeForBranch has no two consecutive separators and the collapsing
\* step keeps every character that is not the separator, in order; with
\* collapseSeparator false the runs of separators keep their full length
\* (calls without maxLength, which cuts the result afterwards).
C19_CollapseOnlySeparatorRuns ==
    (sPc = "done" /\ sResult.error = "none" /\ sOptions.maxLength = 0) =>
        LET sep == C19_Separator
            NotSep(c) == c # sep
            result == sResult.value
        IN IF sOptions.collapseSeparator # "false"
           THEN /\ \A i \in 1..(Len(result) - 1) :
                      ~(result[i] = sep /\ result[i + 1] = sep)
                /\ SelectSeq(result, NotSep) =
                      SelectSeq(C19_BeforeCollapse, NotSep)
           ELSE result = C19_BeforeCollapse

\* C26: for a staged set that is a single lockfile (package-lock.json,
\* yarn.lock or pnpm-lock.yaml) suggestCommitType returns build.
C26_SingleLockfileIsBuild ==
    (/\ gPc = "done"
     /\ gReadable
     /\ \E f \in {<<"p","a","c","k","a","g","e","-","l","o","c","k",".","j","s","o","n">>, <<"y","a","r","n",".","l","o","c","k">>, <<"p","n","p","m","-","l","o","c","k",".","y","a","m","l">>} :
           C14_Paths = {f}) =>
        suggestedType = "build"

\* C30: an empty text from the editor never replaces the draft, in the edit
\* after 'not OK' as in the edit after a failed lint, so that for a non-empty
\* initial message the draft, and with it the returned message, is never
\* empty.
C30_DraftNeverEmptied ==
    pInitial # <<>> => currentMessage # <<>>

\* C21: in the lint retry loop of `sc amend`, when lint failed and the user
\* opted to re-edit, the editor opens with the message the user most recently
\* edited as its default.
C21_ReEditStartsFromLastEdit ==
    (aPc = "edit" /\ aLintCalls >= 1) => aEditorDefault = newMessage

\* the token of the k-th replace call
C22_Token(k) == RenderPairs(rAnswers)[k][1]

\* the text the k-th replace call put in place of its token: what lies in
\* its result between the text before the token and the text after it
C22_Inserted(k) ==
    LET before == rSteps[k]
        after == rSteps[k + 1]
        i == IndexOf(before, C22_Token(k))
        rest == Len(before) - (i + Len(C22_Token(k)) - 1)
    IN IF i = 0 THEN <<>> ELSE SubSeq(after, i, Len(after) - rest)

\* a template rendered in one pass from left to right: the first occurrence
\* of each token gives way to the text of its pair, everything else,
\* later occurrences included, is copied
RECURSIVE C22_SinglePass(_, _, _)
C22_SinglePass(s, pairs, used) ==
    LET starts == {k \in DOMAIN pairs \ used :
                      /\ Len(s) >= Len(pairs[k][1])
                      /\ SubSeq(s, 1, Len(pairs[k][1])) = pairs[k][1]}
    IN IF s = <<>> THEN <<>>
       ELSE IF starts # {}
           THEN LET k == CHOOSE j \in starts : TRUE IN
                pairs[k][2]
                \o C22_SinglePass(SubSeq(s, Len(pairs[k][1]) + 1, Len(s)),
                                  pairs, used \cup {k})
       ELSE <<Head(s)>> \o C22_SinglePass(Tail(s), pairs, used)

C28_ValuesInsertedVerbatim ==
    (/\ rPc = "done"
     /\ \A k \in 1..7 : "$" \notin Range(RenderPairs(rAnswers)[k][2])) =>
        rSteps[8] = C22_SinglePass(rTemplate, RenderPairs(rAnswers), {})

\* C24: after the cleanup pass the final branch name, the one given to
\* git checkout -b, neither starts nor ends with "-" or "/".
C24_NoSeparatorAtEnds ==
    BranchCreated =>
        /\ bFinalName # <<>>
        /\ bFinalName[1] \notin {"-", "/"}
        /\ bFinalName[Len(bFinalName)] \notin {"-", "/"}

\* one removal chosen by priority: the first `{ph}/` if there is one, else
\* the first `{ph}-`, else the first bare `{ph}`
C23_OneRemoval(name, ph) ==
    IF IndexOf(name, Token(ph) \o <<"/">>) # 0
        THEN Substituted(name, Token(ph) \o <<"/">>, <<>>)
    ELSE IF IndexOf(name, Token(ph) \o <<"-">>) # 0
        THEN Substituted(name, Token(ph) \o <<"-">>, <<>>)
    ELSE Substituted(name, Token(ph), <<>>)

\* C23: in branch-name rendering a placeholder whose sanitized value is empty
\* gets exactly one removal, chosen by priority, so that one occurrence of
\* the placeholder and at most one separator after it go and all other text
\* of the name is kept.
C23_EmptyValueOneRemoval ==
    BranchCreated =>
        \A k \in 1..Len(bPlaceholders) :
            bAnswers[bPlaceholders[k]] = <<>> =>
                bSteps[k + 1] = C23_OneRemoval(bSteps[k], bPlaceholders[k])

\* C29: the final branch name given to git checkout -b holds no {name}
\* token of a placeholder of the template, also when a placeholder occurs in
\* the template more than once.
C29_NoPlaceholderTokenLeft ==
    BranchCreated =>
        \A k \in 1..Len(bPlaceholders) :
            IndexOf(bFinalName, Token(bPlaceholders[k])) = 0

\* the positions of the command log holding the switch back to the base
C25_SwitchBacks ==
    {i \in 1..Len(bCommands) : bCommands[i].cmd = "git checkout"}

\* C25: in `sc branch` the switch back, git checkout "<base>", is issued only
\* after the new branch was created, and only when the user declined to stay
\* and the base branch is non-empty; with an empty base the branch is created
\* by git checkout -b without a base argument and no switch back is made;
\* when the creation fails the run ends with exit code 1 before the stay
\* prompt.
C25_SwitchBackOnlyAfterCreation ==
    /\ \A i \in C25_SwitchBacks :
          /\ i = 3
          /\ bCommands[2].cmd = "git checkout -b"
          /\ bPc = "done"
          /\ bStay = "no"
          /\ bBase # <<>>
          /\ bCommands[i].base = bBase
    /\ (BranchCreated /\ bBase = <<>>) =>
          /\ bCommands[2].base = <<>>
          /\ C25_SwitchBacks = {}
    /\ bPc = "exit1" =>
          /\ bStay = "unasked"
          /\ C25_SwitchBacks = {}
    /\ (bPc = "done" /\ bStay = "no" /\ bBase # <<>>) => C25_SwitchBacks = {3}
    /\ bStay # "unasked" => (BranchCreated /\ bPc = "done")

\* C25 witness: the base typed in was blank, the branch was created without
\* a base and the user declined to stay
C25_Witness ==
    /\ bPc = "done"
    /\ BranchCreated
    /\ bBase = <<>>
    /\ bStay = "no"

\* C27: the commit type offered as the default of 'Select commit type' is the
\* suggestion for the files that are staged when the prompt is shown, those
\* staged by the file selection or the automatic staging of the same run
\* included.
C27_DefaultFromFilesStagedAtPrompt ==
    cPc = "ask" =>
        cSuggestedType = suggestCommitType(TRUE, StagedOutput(actuallyStaged))

====
